---- MODULE Spec2Model ----
(***************************************************************************)
(* wikiseek: the offset index (loadIndex, its snapshot, searchIndex,       *)
(* findPageByTitle, getRandomEntries) and the range extractor              *)
(* (ExtractBzip2Range) of main.go, as a state machine.                     *)
(*                                                                         *)
(* Text is a sequence of one-character strings.  An int64 is a tuple of    *)
(* four 16-bit limbs, most significant first, so that the 32-bit shift of  *)
(* offsetCache.getOrCreate keeps its width.                                *)
(***************************************************************************)
EXTENDS Integers, Sequences, FiniteSets, TLC

VARIABLES templateHandlers, openFiles, running, conv, srcOK, lines, archive, cache, phase, heap, index, origin, req, resp, sample

vars == <<templateHandlers, openFiles, running, conv, srcOK, lines, archive, cache, phase, heap, index, origin, req, resp, sample>>

(***************************************************************************)
(* Bounds of the model.                                                    *)
(***************************************************************************)
MaxLines == 3
MaxOff == 7
MaxK == 2

(***************************************************************************)
(* strings                                                                 *)
(***************************************************************************)
Digits == <<"0", "1", "2", "3", "4", "5", "6", "7", "8", "9">>

IsDigit(c) == \E d \in 1..10 : Digits[d] = c

DigitVal(c) == (CHOOSE d \in 1..10 : Digits[d] = c) - 1

\* unicode.ToLower on the letters of the model's alphabet
LowerChar(c) ==
  CASE c = "A" -> "a"
    [] c = "B" -> "b"
    [] c = "F" -> "f"
    [] OTHER -> c

\* strings.ToLower
ToLower(s) == [i \in 1..Len(s) |-> LowerChar(s[i])]

\* strings.EqualFold
EqualFold(s, t) ==
  /\ Len(s) = Len(t)
  /\ \A i \in 1..Len(s) : LowerChar(s[i]) = LowerChar(t[i])

\* strings.ReplaceAll(s, old, new) for one-character old and new
ReplaceAll(s, old, new) == [i \in 1..Len(s) |-> IF s[i] = old THEN new ELSE s[i]]

\* strings.HasPrefix
HasPrefix(s, p) == Len(s) >= Len(p) /\ SubSeq(s, 1, Len(p)) = p

\* strings.Contains
Contains(s, sub) ==
  \E i \in 0..(Len(s) - Len(sub)) : SubSeq(s, i + 1, i + Len(sub)) = sub

\* strings.Index for a one-character separator: 0 when absent
IndexOf(s, sep) ==
  IF \E i \in 1..Len(s) : s[i] = sep
    THEN CHOOSE i \in 1..Len(s) : s[i] = sep /\ \A j \in 1..(i - 1) : s[j] # sep
    ELSE 0

\* strings.Cut at the last separator
Cut_LastSeparator(s, sep) ==
  LET at == { i \in 1..Len(s) : s[i] = sep }
      last == CHOOSE m \in at : \A n \in at : n <= m
  IN
    IF at = {}
      THEN [before |-> s, after |-> <<>>, found |-> FALSE]
      ELSE [before |-> SubSeq(s, 1, last - 1), after |-> SubSeq(s, last + 1, Len(s)), found |-> TRUE]

\* strings.Cut
Cut(s, sep) ==
  LET i == IndexOf(s, sep) IN
    IF i = 0
      THEN [before |-> s, after |-> <<>>, found |-> FALSE]
      ELSE [before |-> SubSeq(s, 1, i - 1), after |-> SubSeq(s, i + 1, Len(s)), found |-> TRUE]

(***************************************************************************)
(* int64 as four 16-bit limbs, most significant first                      *)
(***************************************************************************)
Limb == 65536

Zero64 == <<0, 0, 0, 0>>

MaxInt64 == <<32767, 65535, 65535, 65535>>

\* a small natural number as an int64
Nat64(n) == <<0, 0, 0, n>>

\* signed comparison of two non-negative int64
Less64(a, b) ==
  \E i \in 1..4 : a[i] < b[i] /\ \A j \in 1..(i - 1) : a[j] = b[j]

\* x*10 + d in 64 bits unsigned; ovf when the result does not fit
MulAdd10(x, d) ==
  LET t4 == x[4] * 10 + d
      t3 == x[3] * 10 + (t4 \div Limb)
      t2 == x[2] * 10 + (t3 \div Limb)
      t1 == x[1] * 10 + (t2 \div Limb)
  IN  [val |-> <<t1 % Limb, t2 % Limb, t3 % Limb, t4 % Limb>>, ovf |-> t1 >= Limb]

\* strconv.ParseUint(s, 10, 64) from position i with accumulator acc
RECURSIVE ParseUintFrom(_, _, _)
ParseUintFrom(s, i, acc) ==
  IF i > Len(s) THEN [val |-> acc, err |-> "none"]
  ELSE IF ~IsDigit(s[i]) THEN [val |-> Zero64, err |-> "syntax"]
  ELSE LET m == MulAdd10(acc, DigitVal(s[i])) IN
         IF m.ovf THEN [val |-> <<65535, 65535, 65535, 65535>>, err |-> "range"]
         ELSE ParseUintFrom(s, i + 1, m.val)

\* strconv.ParseInt(s, 10, 64) and strconv.Atoi with the error dropped, on
\* unsigned numerals
ParseInt(s) ==
  IF Len(s) = 0 THEN Zero64
  ELSE LET u == ParseUintFrom(s, 1, Zero64) IN
         IF u.err = "syntax" THEN Zero64
         ELSE IF u.err = "range" \/ u.val[1] >= 32768 THEN MaxInt64
         ELSE u.val

(***************************************************************************)
(* offsetCache                                                             *)
(***************************************************************************)
\* key := uint64(start)<<32 | uint64(uint32(end)): the low 32 bits of start
\* above the low 32 bits of end
OffsetKey(start, end) == <<start[3], start[4], end[3], end[4]>>

\* offsetCache.getOrCreate over the map pairs (key -> address) and the
\* allocated OffsetPair objects h
getOrCreate(pairs, h, start, end) ==
  LET key == OffsetKey(start, end) IN
    IF key \in DOMAIN pairs
      THEN [pairs |-> pairs, heap |-> h, ref |-> pairs[key]]
      ELSE [pairs |-> (key :> (Len(h) + 1)) @@ pairs,
            heap |-> Append(h, [Start |-> start, End |-> end]),
            ref |-> Len(h) + 1]

(***************************************************************************)
(* loadIndex: building the table from the source listing                   *)
(***************************************************************************)
ReservedPrefixes ==
  { <<"F", "i", "l", "e", ":">>,
    <<"C", "a", "t", "e", "g", "o", "r", "y", ":">>,
    <<"W", "i", "k", "i", "p", "e", "d", "i", "a", ":">>,
    <<"D", "r", "a", "f", "t", ":">>,
    <<"P", "o", "r", "t", "a", "l", ":">>,
    <<"T", "e", "m", "p", "l", "a", "t", "e", ":">> }

EmptyMap == [k \in {} |-> 0]

\* the scanner loop: one accepted line appends one entry
RECURSIVE ScanLines(_, _, _)
ScanLines(ls, i, st) ==
  IF i > Len(ls) THEN st
  ELSE
    LET c1 == Cut(ls[i], ":")
        c2 == Cut(c1.after, ":")
    IN
      IF ~c1.found THEN ScanLines(ls, i + 1, st)
      ELSE IF ~c2.found THEN ScanLines(ls, i + 1, st)
      ELSE IF \E p \in ReservedPrefixes : HasPrefix(c2.after, p)
        THEN ScanLines(ls, i + 1, st)
      ELSE
        LET g == getOrCreate(st.pairs, st.heap, ParseInt(c1.before), Zero64) IN
          ScanLines(ls, i + 1,
            [entries |-> Append(st.entries,
                          [Offsets |-> g.ref, PageID |-> ParseInt(c2.before), Title |-> c2.after]),
             pairs |-> g.pairs,
             heap |-> g.heap])

\* sort.Slice by Offsets.Start: for fewer than 12 elements the library runs
\* an insertion sort
RECURSIVE InsertSorted(_, _, _)
InsertSorted(es, e, h) ==
  IF Len(es) = 0 THEN <<e>>
  ELSE IF Less64(h[e.Offsets].Start, h[es[Len(es)].Offsets].Start)
    THEN Append(InsertSorted(SubSeq(es, 1, Len(es) - 1), e, h), es[Len(es)])
    ELSE Append(es, e)

RECURSIVE SortByStart(_, _, _)
SortByStart(es, n, h) ==
  IF n = 0 THEN <<>>
  ELSE InsertSorted(SortByStart(es, n - 1, h), es[n], h)

\* the inner loop of the second pass: the next higher start after position i
RECURSIVE NextOffset(_, _, _, _)
NextOffset(es, h, i, j) ==
  IF j > Len(es) THEN Zero64
  ELSE IF Less64(h[es[i].Offsets].Start, h[es[j].Offsets].Start)
    THEN h[es[j].Offsets].Start
    ELSE NextOffset(es, h, i, j + 1)

\* the second pass: entry i gets the pair (its start, next higher start)
RECURSIVE SecondPass(_, _)
SecondPass(st, i) ==
  IF i > Len(st.entries) THEN st
  ELSE
    LET e == st.entries[i]
        g == getOrCreate(st.pairs, st.heap, st.heap[e.Offsets].Start,
                         NextOffset(st.entries, st.heap, i, i + 1))
    IN SecondPass([entries |-> [st.entries EXCEPT ![i].Offsets = g.ref],
                   pairs |-> g.pairs,
                   heap |-> g.heap], i + 1)

\* loadIndex from the source listing: scan, sort, second pass
BuildIndex(ls) ==
  LET s1 == ScanLines(ls, 1, [entries |-> <<>>, pairs |-> EmptyMap, heap |-> <<>>])
      s2 == [s1 EXCEPT !.entries = SortByStart(s1.entries, Len(s1.entries), s1.heap)]
  IN SecondPass(s2, 1)

(***************************************************************************)
(* the snapshot: gob inside gzip, as a stream of tokens                    *)
(***************************************************************************)
Tok(t, v) == [t |-> t, v |-> v]

\* the table by value: what the encoder sees through the Offsets pointers
TableValues(es, h) ==
  [i \in 1..Len(es) |->
     [Start |-> h[es[i].Offsets].Start, End |-> h[es[i].Offsets].End,
      PageID |-> es[i].PageID, Title |-> es[i].Title]]

\* an encoder that numbers every sent field 1 after the previous one
EncodeOffsetPair_NoDelta(start, end) ==
  (IF start = Zero64 THEN <<>> ELSE <<Tok("field", 1), Tok("int", start)>>)
  \o (IF end = Zero64 THEN <<>> ELSE <<Tok("field", 1), Tok("int", end)>>)
  \o <<Tok("end", 0)>>

\* gob of one OffsetPair: a field holding the zero value is omitted, field
\* numbers are sent as deltas, the struct ends with a terminator
EncodeOffsetPair(start, end) ==
  (IF start = Zero64 THEN <<>> ELSE <<Tok("field", 1), Tok("int", start)>>)
  \o (IF end = Zero64 THEN <<>>
      ELSE <<Tok("field", IF start = Zero64 THEN 2 ELSE 1), Tok("int", end)>>)
  \o <<Tok("end", 0)>>

\* gob of one IndexEntry: Offsets is a non-nil pointer to a struct and is
\* always sent; PageID and Title are omitted when zero
EncodeEntry(v) ==
  <<Tok("field", 1)>> \o EncodeOffsetPair(v.Start, v.End)
  \o (IF v.PageID = Zero64 THEN <<>> ELSE <<Tok("field", 1), Tok("int", v.PageID)>>)
  \o (IF v.Title = <<>> THEN <<>>
      ELSE <<Tok("field", IF v.PageID = Zero64 THEN 2 ELSE 1), Tok("str", v.Title)>>)
  \o <<Tok("end", 0)>>

RECURSIVE EncodeEntries(_, _)
EncodeEntries(vs, i) ==
  IF i > Len(vs) THEN <<>> ELSE EncodeEntry(vs[i]) \o EncodeEntries(vs, i + 1)

\* saveIndexCache: gzip header, gob type definitions, the slice with its
\* length, gzip trailer
EncodeSnapshot(vs) ==
  <<Tok("gzip", 0), Tok("types", 0), Tok("len", Len(vs))>>
  \o EncodeEntries(vs, 1) \o <<Tok("crc", 0)>>

DecodeFail == [ok |-> FALSE, val |-> <<>>, pos |-> 0]

\* gob decoding of one OffsetPair starting at b[p]
RECURSIVE DecodeOffsetPair(_, _, _, _)
DecodeOffsetPair(b, p, fnum, val) ==
  IF p > Len(b) THEN DecodeFail
  ELSE IF b[p].t = "end" THEN [ok |-> TRUE, val |-> val, pos |-> p + 1]
  ELSE IF b[p].t # "field" \/ p + 1 > Len(b) THEN DecodeFail
  ELSE LET f == fnum + b[p].v IN
    IF f = 1 /\ b[p + 1].t = "int"
      THEN DecodeOffsetPair(b, p + 2, f, [val EXCEPT !.Start = b[p + 1].v])
    ELSE IF f = 2 /\ b[p + 1].t = "int"
      THEN DecodeOffsetPair(b, p + 2, f, [val EXCEPT !.End = b[p + 1].v])
    ELSE DecodeFail

\* gob decoding of one IndexEntry starting at b[p]
RECURSIVE DecodeEntry(_, _, _, _)
DecodeEntry(b, p, fnum, val) ==
  IF p > Len(b) THEN DecodeFail
  ELSE IF b[p].t = "end" THEN [ok |-> TRUE, val |-> val, pos |-> p + 1]
  ELSE IF b[p].t # "field" THEN DecodeFail
  ELSE LET f == fnum + b[p].v IN
    IF f = 1
      THEN LET d == DecodeOffsetPair(b, p + 1, 0, [Start |-> Zero64, End |-> Zero64]) IN
             IF d.ok
               THEN DecodeEntry(b, d.pos, f,
                      [val EXCEPT !.Start = d.val.Start, !.End = d.val.End, !.HasOffsets = TRUE])
               ELSE DecodeFail
    ELSE IF p + 1 > Len(b) THEN DecodeFail
    ELSE IF f = 2 /\ b[p + 1].t = "int"
      THEN DecodeEntry(b, p + 2, f, [val EXCEPT !.PageID = b[p + 1].v])
    ELSE IF f = 3 /\ b[p + 1].t = "str"
      THEN DecodeEntry(b, p + 2, f, [val EXCEPT !.Title = b[p + 1].v])
    ELSE DecodeFail

ZeroEntry ==
  [Start |-> Zero64, End |-> Zero64, PageID |-> Zero64, Title |-> <<>>, HasOffsets |-> FALSE]

\* a decoder that returns the entries it could read when the stream ends
\* early
RECURSIVE DecodeEntries_KeepsPrefix(_, _, _, _)
DecodeEntries_KeepsPrefix(b, p, n, acc) ==
  IF n = 0 THEN [ok |-> TRUE, val |-> acc, pos |-> p]
  ELSE LET d == DecodeEntry(b, p, 0, ZeroEntry) IN
    IF d.ok THEN DecodeEntries_KeepsPrefix(b, d.pos, n - 1, Append(acc, d.val))
    ELSE [ok |-> TRUE, val |-> acc, pos |-> p]

\* the elements of the slice, n of them
RECURSIVE DecodeEntries(_, _, _, _)
DecodeEntries(b, p, n, acc) ==
  IF n = 0 THEN [ok |-> TRUE, val |-> acc, pos |-> p]
  ELSE LET d == DecodeEntry(b, p, 0, ZeroEntry) IN
    IF d.ok THEN DecodeEntries(b, d.pos, n - 1, Append(acc, d.val)) ELSE DecodeFail

\* loadIndexCache on the bytes of the file: gzip.NewReader needs the gzip
\* header, the decoder needs the type definitions and the whole value; the
\* gzip trailer is not read once the value is complete
DecodeSnapshot(b) ==
  IF Len(b) < 3 THEN DecodeFail
  ELSE IF b[1].t # "gzip" \/ b[2].t # "types" \/ b[3].t # "len" THEN DecodeFail
  ELSE DecodeEntries(b, 4, b[3].v, <<>>)

\* loadIndexCache: os.Open, then the decoding; every decoded entry owns a
\* freshly allocated OffsetPair
loadIndexCache(c) ==
  IF ~c.exists THEN [err |-> TRUE, entries |-> <<>>, heap |-> <<>>]
  ELSE LET d == DecodeSnapshot(c.bytes) IN
    IF ~d.ok THEN [err |-> TRUE, entries |-> <<>>, heap |-> <<>>]
    ELSE [err |-> FALSE,
          entries |-> [i \in 1..Len(d.val) |->
                         [Offsets |-> IF d.val[i].HasOffsets THEN i ELSE 0,
                          PageID |-> d.val[i].PageID, Title |-> d.val[i].Title]],
          heap |-> [i \in 1..Len(d.val) |-> [Start |-> d.val[i].Start, End |-> d.val[i].End]]]

\* what saveIndexCache can leave in the file: nothing changed when os.Create
\* fails, else the first n tokens of the stream (all of them on success)
saveIndexCache(c, es, h, created, n) ==
  IF ~created THEN c
  ELSE [exists |-> TRUE, bytes |-> SubSeq(EncodeSnapshot(TableValues(es, h)), 1, n)]

(***************************************************************************)
(* searchIndex, findPageByTitle                                            *)
(***************************************************************************)
\* a match test that forgets to lower the query
TitleMatches_QueryNotLowered(title, query) == Contains(ToLower(title), query)

\* the test of searchIndex: query and title are lowered, then strings.Contains
TitleMatches(title, query) == Contains(ToLower(title), ToLower(query))

\* searchIndex: the loop over entries[1..n], appending each match
RECURSIVE searchIndex(_, _, _)
searchIndex(entries, query, n) ==
  IF n = 0 THEN <<>>
  ELSE LET r == searchIndex(entries, query, n - 1) IN
    IF TitleMatches(entries[n].Title, query)
      THEN Append(r, entries[n])
      ELSE r

\* first position from i on whose title equals t exactly, 0 when none
RECURSIVE FirstExact(_, _, _)
FirstExact(entries, t, i) ==
  IF i > Len(entries) THEN 0
  ELSE IF entries[i].Title = t THEN i
  ELSE FirstExact(entries, t, i + 1)

\* first position from i on whose title equals t under case folding
RECURSIVE FirstFold(_, _, _)
FirstFold(entries, t, i) ==
  IF i > Len(entries) THEN 0
  ELSE IF EqualFold(entries[i].Title, t) THEN i
  ELSE FirstFold(entries, t, i + 1)

\* a lookup with a single case-insensitive pass
findPageByTitle_FoldOnly(entries, title) ==
  FirstFold(entries, ReplaceAll(title, "_", " "), 1)

\* a lookup that runs the case-insensitive pass before the exact pass
findPageByTitle_FoldFirst(entries, title) ==
  LET searchTitle == ReplaceAll(title, "_", " ")
      x == FirstFold(entries, searchTitle, 1)
  IN IF x # 0 THEN x ELSE FirstExact(entries, searchTitle, 1)

\* findPageByTitle: position of the returned entry, 0 for nil
findPageByTitle(entries, title) ==
  LET searchTitle == ReplaceAll(title, "_", " ")
      x == FirstExact(entries, searchTitle, 1)
  IN IF x # 0 THEN x ELSE FirstFold(entries, searchTitle, 1)

(***************************************************************************)
(* the archive and ExtractBzip2Range                                       *)
(***************************************************************************)
\* one compressed block: stream magic, compressed data, end-of-stream magic
Block(chunks) ==
  <<Tok("BZ", 0)>> \o [i \in 1..Len(chunks) |-> Tok("z", chunks[i])] \o <<Tok("EOS", 0)>>

NulByte == Tok("nul", 0)

\* bzip2.NewReader + io.Copy over the bytes b from position p; inStream is
\* TRUE between a stream magic and its end-of-stream magic; an input that
\* ends before the first magic or inside a stream is an error
RECURSIVE Bunzip(_, _, _, _)
Bunzip(b, p, inStream, out) ==
  IF p > Len(b)
    THEN IF inStream \/ p = 1 THEN [ok |-> FALSE, data |-> <<>>]
         ELSE [ok |-> TRUE, data |-> out]
  ELSE IF inStream
    THEN IF b[p].t = "z" THEN Bunzip(b, p + 1, TRUE, out \o b[p].v)
         ELSE IF b[p].t = "EOS" THEN Bunzip(b, p + 1, FALSE, out)
         ELSE [ok |-> FALSE, data |-> <<>>]
  ELSE IF b[p].t = "BZ" THEN Bunzip(b, p + 1, TRUE, out)
  ELSE [ok |-> FALSE, data |-> <<>>]

\* io.ReadFull(f, buf) after f.Seek(start): the bytes read and the error
ReadFull(bytes, start, n) ==
  LET got == SubSeq(bytes, start + 1, IF start + n < Len(bytes) THEN start + n ELSE Len(bytes))
  IN [buf |-> got \o [i \in 1..(n - Len(got)) |-> NulByte],
      err |-> IF Len(got) = n THEN "nil"
              ELSE IF Len(got) = 0 THEN "EOF"
              ELSE "ErrUnexpectedEOF"]

\* a range check that also accepts end = start
InvalidOffsets_EndEqualsStart(startOffset, endOffset) ==
  startOffset < 0 \/ endOffset < 0 \/ (endOffset > 0 /\ endOffset < startOffset)

\* the range check at the head of ExtractBzip2Range
InvalidOffsets(startOffset, endOffset) ==
  startOffset < 0 \/ endOffset < 0 \/ (endOffset > 0 /\ endOffset <= startOffset)

\* ExtractBzip2Range
ExtractBzip2Range(arch, startOffset, endOffset) ==
  IF InvalidOffsets(startOffset, endOffset)
    THEN [kind |-> "InvalidRange", data |-> <<>>]
  ELSE IF ~arch.exists
    THEN [kind |-> "OpenError", data |-> <<>>]
  ELSE IF endOffset - startOffset < 0
    THEN [kind |-> "panic", data |-> <<>>]
  ELSE LET rd == ReadFull(arch.bytes, startOffset, endOffset - startOffset) IN
    IF rd.err # "nil" /\ rd.err # "EOF"
      THEN [kind |-> "ReadError", data |-> <<>>]
    ELSE LET z == Bunzip(rd.buf, 1, FALSE, <<>>) IN
      IF z.ok THEN [kind |-> "ok", data |-> z.data]
      ELSE [kind |-> "DecompressError", data |-> <<>>]

(***************************************************************************)
(* ExtractPageText                                                         *)
(***************************************************************************)
PageElement(id, text) ==
  <<Tok("start", "page"), Tok("id", id),
    Tok("start", "revision"), Tok("id", Nat64(9)), Tok("text", text),
    Tok("end", "revision"), Tok("end", "page")>>

\* decoder.DecodeElement(&page, &se) from the token after <page>: path is the
\* stack of elements open inside the page; <id> fills Page.ID when it is a
\* child of the page, <text> fills Revision.Text inside <revision>
RECURSIVE DecodeElement(_, _, _, _)
DecodeElement(d, p, path, page) ==
  IF p > Len(d) THEN [ok |-> FALSE, page |-> page, pos |-> p]
  ELSE IF d[p].t = "start" THEN DecodeElement(d, p + 1, <<d[p].v>> \o path, page)
  ELSE IF d[p].t = "end" THEN
    IF path = <<>>
      THEN [ok |-> d[p].v = "page", page |-> page, pos |-> p + 1]
    ELSE IF Head(path) = d[p].v THEN DecodeElement(d, p + 1, Tail(path), page)
    ELSE [ok |-> FALSE, page |-> page, pos |-> p]
  ELSE IF d[p].t = "id" /\ path = <<>>
    THEN DecodeElement(d, p + 1, path, [page EXCEPT !.ID = d[p].v])
  ELSE IF d[p].t = "text" /\ path = <<"revision">>
    THEN DecodeElement(d, p + 1, path, [page EXCEPT !.Text = d[p].v])
  ELSE IF d[p].t \in {"id", "text"} THEN DecodeElement(d, p + 1, path, page)
  ELSE [ok |-> FALSE, page |-> page, pos |-> p]

\* ExtractPageText: the token loop; stk is the decoder's stack of open
\* elements, against which decoder.Token checks every end tag and the end
\* of the input
RECURSIVE ExtractPageText(_, _, _, _)
ExtractPageText(d, p, stk, pageID) ==
  IF p > Len(d)
    THEN [kind |-> (IF stk = <<>> THEN "PageNotFound" ELSE "ParseError"), text |-> <<>>]
  ELSE IF d[p].t = "start" /\ d[p].v = "page"
    THEN LET e == DecodeElement(d, p + 1, <<>>, [ID |-> Zero64, Text |-> <<>>]) IN
      IF ~e.ok THEN [kind |-> "ParseError", text |-> <<>>]
      ELSE IF e.page.ID = pageID THEN [kind |-> "ok", text |-> e.page.Text]
      ELSE ExtractPageText(d, e.pos, stk, pageID)
  ELSE IF d[p].t = "start" THEN ExtractPageText(d, p + 1, <<d[p].v>> \o stk, pageID)
  ELSE IF d[p].t = "end" THEN
    IF stk # <<>> /\ Head(stk) = d[p].v THEN ExtractPageText(d, p + 1, Tail(stk), pageID)
    ELSE [kind |-> "ParseError", text |-> <<>>]
  ELSE IF d[p].t \in {"id", "text"} THEN ExtractPageText(d, p + 1, stk, pageID)
  ELSE [kind |-> "ParseError", text |-> <<>>]

(***************************************************************************)
(* wikiconverter.go: text helpers                                          *)
(***************************************************************************)
MinNat(a, b) == IF a <= b THEN a ELSE b

MaxOf(S) == CHOOSE m \in S : \A n \in S : n <= m

MinOf(S) == CHOOSE m \in S : \A n \in S : m <= n

UpperLetters ==
  <<"A", "B", "C", "D", "E", "F", "G", "H", "I", "J", "K", "L", "M",
    "N", "O", "P", "Q", "R", "S", "T", "U", "V", "W", "X", "Y", "Z">>

LowerLetters ==
  <<"a", "b", "c", "d", "e", "f", "g", "h", "i", "j", "k", "l", "m",
    "n", "o", "p", "q", "r", "s", "t", "u", "v", "w", "x", "y", "z">>

\* unicode.ToTitle on ASCII
UpperChar(c) ==
  IF \E i \in 1..26 : LowerLetters[i] = c
    THEN UpperLetters[CHOOSE i \in 1..26 : LowerLetters[i] = c] ELSE c

\* simple case folding of the regexp flag (?i) on ASCII
FoldChar(c) ==
  IF \E i \in 1..26 : UpperLetters[i] = c
    THEN LowerLetters[CHOOSE i \in 1..26 : UpperLetters[i] = c] ELSE c

\* the regexp class \w: a letter (a character that has another case), a
\* digit or the underscore
IsWord(c) == FoldChar(c) # c \/ UpperChar(c) # c \/ IsDigit(c) \/ c = "_"

\* the number of leading elements of s, from position p, that are in set cs
RECURSIVE RunIn(_, _, _)
RunIn(s, p, cs) ==
  IF p > Len(s) \/ s[p] \notin cs THEN 0 ELSE 1 + RunIn(s, p + 1, cs)

\* the number of leading elements of s, from position p, that are not in cs
RECURSIVE RunNotIn(_, _, _)
RunNotIn(s, p, cs) ==
  IF p > Len(s) \/ s[p] \in cs THEN 0 ELSE 1 + RunNotIn(s, p + 1, cs)

\* unicode.IsSpace and the regexp class \s on the white space of the model
WhiteSpace == {" ", "\n", "\t", "\r"}

\* strings.TrimLeft(s, cutset)
TrimLeft(s, cs) == SubSeq(s, RunIn(s, 1, cs) + 1, Len(s))

\* the number of trailing elements of s that are in cs
RECURSIVE RunInBack(_, _, _)
RunInBack(s, p, cs) ==
  IF p < 1 \/ s[p] \notin cs THEN 0 ELSE 1 + RunInBack(s, p - 1, cs)

\* strings.TrimSpace
TrimSpace(s) ==
  LET l == TrimLeft(s, WhiteSpace) IN SubSeq(l, 1, Len(l) - RunInBack(l, Len(l), WhiteSpace))

\* strings.Index(s, sub) from position p, 1-based; 0 when absent
IndexFrom(s, sub, p) ==
  LET at == { q \in p..(Len(s) - Len(sub) + 1) : SubSeq(s, q, q + Len(sub) - 1) = sub }
  IN IF at = {} THEN 0 ELSE MinOf(at)

\* strings.Replace(s, old, new, 1) for a non-empty old
ReplaceFirst(s, old, new) ==
  LET i == IndexFrom(s, old, 1) IN
    IF i = 0 THEN s
    ELSE SubSeq(s, 1, i - 1) \o new \o SubSeq(s, i + Len(old), Len(s))

\* strings.ReplaceAll(s, old, new) for a non-empty old
RECURSIVE ReplaceAllFrom(_, _, _, _)
ReplaceAllFrom(s, old, new, p) ==
  LET i == IndexFrom(s, old, p) IN
    IF i = 0 THEN SubSeq(s, p, Len(s))
    ELSE SubSeq(s, p, i - 1) \o new \o ReplaceAllFrom(s, old, new, i + Len(old))

\* strings.Split(s, sep) for a one-character sep
RECURSIVE Split(_, _)
Split(s, sep) ==
  LET i == IndexOf(s, sep) IN
    IF i = 0 THEN <<s>>
    ELSE <<SubSeq(s, 1, i - 1)>> \o Split(SubSeq(s, i + 1, Len(s)), sep)

\* strings.SplitN(s, sep, 2) for a one-character sep
SplitN2(s, sep) ==
  LET i == IndexOf(s, sep) IN
    IF i = 0 THEN <<s>>
    ELSE <<SubSeq(s, 1, i - 1), SubSeq(s, i + 1, Len(s))>>

\* strings.Join
RECURSIVE Join(_, _)
Join(ss, sep) ==
  IF ss = <<>> THEN <<>>
  ELSE IF Len(ss) = 1 THEN ss[1]
  ELSE ss[1] \o sep \o Join(Tail(ss), sep)

\* strings.Title: the first letter of every word in upper case; a word
\* starts after a character that is no letter, digit or underscore
Title(s) ==
  [i \in 1..Len(s) |->
     IF i = 1 \/ ~IsWord(s[i - 1]) THEN UpperChar(s[i]) ELSE s[i]]

(***************************************************************************)
(* headerPattern and the header stage                                      *)
(***************************************************************************)
\* ^ and $ under the flag (?m)
LineStart(s, p) == p = 1 \/ s[p - 1] = "\n"

LineEnd(s, p) == p = Len(s) + 1 \/ s[p] = "\n"

\* \s*={1,6}$ can match from position q
HeaderTail(s, q) ==
  \E w \in 0..RunIn(s, q, WhiteSpace) :
    \E m \in 1..MinNat(6, RunIn(s, q + w, {"="})) : LineEnd(s, q + w + m)

\* the lengths that (.+?) can take from position q
HeaderTexts(s, q) == { t \in 1..RunNotIn(s, q, {"\n"}) : HeaderTail(s, q + t) }

\* the white space that \s* can take after n leading '='
HeaderGaps(s, p, n) ==
  { w \in 0..RunIn(s, p + n, WhiteSpace) : HeaderTexts(s, p + n + w) # {} }

\* the numbers of leading '=' with which headerPattern matches at p
HeaderLevels(s, p) ==
  { n \in 1..MinNat(6, RunIn(s, p, {"="})) : HeaderGaps(s, p, n) # {} }

\* the leftmost-first match of headerPattern at p: ={1,6} and \s* take as
\* much as a match allows, (.+?) as little
HeaderMatch(s, p) ==
  LET n == MaxOf(HeaderLevels(s, p))
      w == MaxOf(HeaderGaps(s, p, n))
      q == p + n + w
      t == MinOf(HeaderTexts(s, q))
      w2 == MaxOf({ v \in 0..RunIn(s, q + t, WhiteSpace) :
                     \E m \in 1..MinNat(6, RunIn(s, q + t + v, {"="})) :
                        LineEnd(s, q + t + v + m) })
      m2 == MaxOf({ m \in 1..MinNat(6, RunIn(s, q + t + w2, {"="})) :
                     LineEnd(s, q + t + w2 + m) })
  IN [level |-> n, text |-> SubSeq(s, q, q + t - 1), end |-> q + t + w2 + m2]

\* the first position from p on where headerPattern matches; 0 when none
RECURSIVE HeaderFind(_, _)
HeaderFind(s, p) ==
  IF p > Len(s) THEN 0
  ELSE IF LineStart(s, p) /\ HeaderLevels(s, p) # {} THEN p
  ELSE HeaderFind(s, p + 1)

\* headerPattern.ReplaceAllStringFunc(content, ...) from position p
RECURSIVE HeaderStageFrom(_, _)
HeaderStageFrom(s, p) ==
  LET i == HeaderFind(s, p) IN
    IF i = 0 THEN SubSeq(s, p, Len(s))
    ELSE LET h == HeaderMatch(s, i) IN
      SubSeq(s, p, i - 1)
        \o <<"<", "h">> \o <<Digits[h.level + 1]>> \o <<">">> \o h.text
        \o <<"<", "/", "h">> \o <<Digits[h.level + 1]>> \o <<">">>
        \o HeaderStageFrom(s, h.end)

HeaderStage(s) == HeaderStageFrom(s, 1)

(***************************************************************************)
(* bold and italic                                                         *)
(***************************************************************************)
Quotes(n) == [i \in 1..n |-> "'"]

\* the end of the shortest (.*?) from position q: the first run of n quotes
\* on the same line; 0 when none
RECURSIVE EmphClose(_, _, _)
EmphClose(s, q, n) ==
  IF q + n - 1 > Len(s) THEN 0
  ELSE IF SubSeq(s, q, q + n - 1) = Quotes(n) THEN q
  ELSE IF s[q] = "\n" THEN 0
  ELSE EmphClose(s, q + 1, n)

\* regexp.MustCompile(n quotes (.*?) n quotes).ReplaceAllString from p
RECURSIVE EmphStageFrom(_, _, _, _, _)
EmphStageFrom(s, p, n, open, close) ==
  IF p > Len(s) THEN <<>>
  ELSE IF p + n - 1 <= Len(s) /\ SubSeq(s, p, p + n - 1) = Quotes(n)
            /\ EmphClose(s, p + n, n) # 0
    THEN LET q == EmphClose(s, p + n, n) IN
      open \o SubSeq(s, p + n, q - 1) \o close \o EmphStageFrom(s, q + n, n, open, close)
  ELSE <<s[p]>> \o EmphStageFrom(s, p + 1, n, open, close)

EmphStage(s) ==
  LET a == EmphStageFrom(s, 1, 5, <<"<", "s", "t", "r", "o", "n", "g", ">", "<", "e", "m", ">">>, <<"<", "/", "e", "m", ">", "<", "/", "s", "t", "r", "o", "n", "g", ">">>)
      b == EmphStageFrom(a, 1, 3, <<"<", "s", "t", "r", "o", "n", "g", ">">>, <<"<", "/", "s", "t", "r", "o", "n", "g", ">">>)
  IN EmphStageFrom(b, 1, 2, <<"<", "e", "m", ">">>, <<"<", "/", "e", "m", ">">>)

(***************************************************************************)
(* processLists                                                            *)
(***************************************************************************)
\* a closing loop that closes one list only
CloseLists_OneLevel(listStack, depth) ==
  IF Len(listStack) <= depth THEN <<>>
  ELSE << <<"<", "/">> \o listStack[Len(listStack)] \o <<">">> >>

\* the closing tags of the lists of the stack from its top down to depth
RECURSIVE CloseLists(_, _)
CloseLists(listStack, depth) ==
  IF Len(listStack) <= depth THEN <<>>
  ELSE << <<"<", "/">> \o listStack[Len(listStack)] \o <<">">> >>
         \o CloseLists(SubSeq(listStack, 1, Len(listStack) - 1), depth)

\* the loop of processLists over the lines from k on
RECURSIVE ListLines(_, _, _)
ListLines(ls, k, listStack) ==
  IF k > Len(ls) THEN CloseLists(listStack, 0)
  ELSE LET line == ls[k]
           trimmed == TrimSpace(line)
       IN IF HasPrefix(trimmed, <<"*">>) \/ HasPrefix(trimmed, <<"#">>)
            THEN LET listType == IF HasPrefix(trimmed, <<"#">>) THEN <<"o", "l">> ELSE <<"u", "l">>
                     depth == Len(trimmed) - Len(TrimLeft(trimmed, {"*", "#"}))
                     kept == SubSeq(listStack, 1, MinNat(Len(listStack), depth))
                     opened == [i \in 1..(depth - Len(kept)) |-> listType]
                     itemContent == TrimSpace(SubSeq(trimmed, depth + 1, Len(trimmed)))
                 IN CloseLists(listStack, depth)
                      \o [i \in 1..Len(opened) |-> <<"<">> \o listType \o <<">">>]
                      \o << <<"<", "l", "i", ">">> \o itemContent \o <<"<", "/", "l", "i", ">">> >>
                      \o ListLines(ls, k + 1, kept \o opened)
            ELSE CloseLists(listStack, 0) \o <<line>> \o ListLines(ls, k + 1, <<>>)

processLists(content) == Join(ListLines(Split(content, "\n"), 1, <<>>), <<"\n">>)

(***************************************************************************)
(* linkPattern and the link stage                                          *)
(***************************************************************************)
\* the match of linkPattern at p: [[, a run of characters that are no
\* brackets, ]]; target is the shortest non-empty prefix of the run that is
\* followed by '|' and a non-empty rest, or else the whole run
LinkMatch(s, p) ==
  LET n == RunNotIn(s, p + 2, {"[", "]"})
      run == SubSeq(s, p + 2, p + 1 + n)
      bars == { k \in 1..(n - 2) : run[k + 1] = "|" }
      k == IF bars = {} THEN n ELSE MinOf(bars)
  IN [ok |-> /\ p + 1 <= Len(s)
             /\ SubSeq(s, p, p + 1) = <<"[", "[">>
             /\ n >= 1
             /\ p + n + 3 <= Len(s)
             /\ SubSeq(s, p + n + 2, p + n + 3) = <<"]", "]">>,
      target |-> SubSeq(run, 1, k),
      text |-> SubSeq(run, k + 2, n),
      end |-> p + n + 4]

\* the replacement function of the link stage
LinkHTML(m) ==
  LET linkTarget == ReplaceAllFrom(ReplaceAllFrom(TrimSpace(m.target), <<" ">>, <<"_">>, 1),
                                   <<"/", "w", "i", "k", "i", "/">>, <<>>, 1)
      linkText == IF m.text # <<>> THEN TrimSpace(m.text) ELSE m.target
  IN <<"<", "a", " ", "h", "r", "e", "f", "=", "\"", "/", "w", "i", "k", "i", "/">> \o linkTarget \o <<"\"", ">">> \o linkText \o <<"<", "/", "a", ">">>

\* linkPattern.ReplaceAllStringFunc(content, ...) from position p
RECURSIVE LinkStageFrom(_, _)
LinkStageFrom(s, p) ==
  IF p > Len(s) THEN <<>>
  ELSE LET m == LinkMatch(s, p) IN
    IF m.ok THEN LinkHTML(m) \o LinkStageFrom(s, m.end)
    ELSE <<s[p]>> \o LinkStageFrom(s, p + 1)

LinkStage(s) == LinkStageFrom(s, 1)

(***************************************************************************)
(* template handlers                                                       *)
(***************************************************************************)
\* the decimal digits of a natural number
RECURSIVE Itoa(_)
Itoa(n) == IF n < 10 THEN <<Digits[n + 1]>> ELSE Itoa(n \div 10) \o <<Digits[(n % 10) + 1]>>

\* fmt.Sprintf("%d", n)
FormatInt(n) == IF n < 0 THEN <<"-">> \o Itoa(-n) ELSE Itoa(n)

\* fmt.Sprintf("%02d", n)
FormatInt02(n) == IF 0 <= n /\ n < 10 THEN <<"0">> \o Itoa(n) ELSE FormatInt(n)

\* the value of a sequence of digits
RECURSIVE DigitsValue(_, _)
DigitsValue(s, acc) ==
  IF s = <<>> THEN acc ELSE DigitsValue(Tail(s), acc * 10 + DigitVal(Head(s)))

\* atoi: strconv.Atoi with 0 for every error; the model evaluates it on
\* numerals of at most nine digits
atoi(s) ==
  LET signed == s # <<>> /\ s[1] \in {"+", "-"}
      body == IF signed THEN Tail(s) ELSE s
  IN IF body = <<>> \/ \E i \in 1..Len(body) : ~IsDigit(body[i]) THEN 0
     ELSE IF signed /\ s[1] = "-" THEN 0 - DigitsValue(body, 0)
     ELSE DigitsValue(body, 0)

\* time.Now() of the handlers "birth date and age" and "start date and age"
Now == [Year |-> 2026, Month |-> 11, Day |-> 6]

\* the handlers of "see also", "other uses", "main" and "further"
NoteLinks(label, args) ==
  IF Len(args) = 0 THEN <<>>
  ELSE <<"<", "d", "i", "v", " ", "c", "l", "a", "s", "s", "=", "\"", "n", "o", "t", "e", "\"", ">">> \o label
         \o Join([i \in 1..Len(args) |-> <<"<", "a", " ", "h", "r", "e", "f", "=", "\"">> \o args[i] \o <<"\"", ">">> \o args[i] \o <<"<", "/", "a", ">">>],
                 <<",", " ">>)
         \o <<"<", "/", "d", "i", "v", ">">>

\* the rows of the infobox handler from the arguments after the first
RECURSIVE InfoboxRows(_, _)
InfoboxRows(args, k) ==
  IF k > Len(args) THEN <<>>
  ELSE LET parts == SplitN2(args[k], "=") IN
    (IF Len(parts) = 2
       THEN <<"<", "t", "r", ">", "<", "t", "h", ">">> \o TrimSpace(parts[1]) \o <<"<", "/", "t", "h", ">", "<", "t", "d", ">">>
              \o TrimSpace(parts[2]) \o <<"<", "/", "t", "d", ">", "<", "/", "t", "r", ">">>
       ELSE <<>>)
      \o InfoboxRows(args, k + 1)

infoboxHandler(args) ==
  LET typeParts == SplitN2(args[1], " ")
      caption == IF Len(typeParts) > 1 THEN Title(typeParts[2]) \o <<" ", "I", "n", "f", "o", "r", "m", "a", "t", "i", "o", "n">>
                 ELSE <<"I", "n", "f", "o", "r", "m", "a", "t", "i", "o", "n">>
      rows == InfoboxRows(args, 2)
  IN IF Len(args) < 1 THEN <<>>
     ELSE IF rows = <<>> THEN <<>>
     ELSE <<"<", "t", "a", "b", "l", "e", " ", "c", "l", "a", "s", "s", "=", "\"", "i", "n", "f", "o", "b", "o", "x", "\"", ">">> \o <<"<", "c", "a", "p", "t", "i", "o", "n", ">">> \o caption \o <<"<", "/", "c", "a", "p", "t", "i", "o", "n", ">">>
            \o rows \o <<"<", "/", "t", "a", "b", "l", "e", ">">>

\* the rows of citationHandler from the arguments after the first
RECURSIVE CitationRows(_, _)
CitationRows(args, k) ==
  IF k > Len(args) THEN <<>>
  ELSE LET parts == SplitN2(args[k], "=") IN
    (IF Len(parts) = 2
       THEN LET key == TrimSpace(parts[1])
                value == TrimSpace(parts[2])
                displayValue == IF Len(value) > 40 THEN SubSeq(value, 1, 37) \o <<".", ".", ".">>
                                ELSE value
            IN <<"<", "t", "r", ">", "<", "t", "d", ">">> \o key \o <<"<", "/", "t", "d", ">", "<", "t", "d", " ", "t", "i", "t", "l", "e", "=", "\"">> \o value \o <<"\"", ">">>
                 \o displayValue \o <<"<", "/", "t", "d", ">", "<", "/", "t", "r", ">">>
       ELSE <<>>)
      \o CitationRows(args, k + 1)

citationHandler(args) ==
  IF Len(args) = 0 THEN <<"*">>
  ELSE LET typeParts == SplitN2(args[1], " ")
           citationType == IF Len(typeParts) > 1 THEN Title(typeParts[2]) ELSE <<"g", "e", "n", "e", "r", "a", "l">>
           rows == CitationRows(args, 2)
       IN IF rows = <<>> THEN <<"*">>
          ELSE <<"<", "s", "p", "a", "n", " ", "c", "l", "a", "s", "s", "=", "\"", "c", "i", "t", "a", "t", "i", "o", "n", "-", "m", "a", "r", "k", "e", "r", "\"", ">", "*", "<", "d", "i", "v", " ", "c", "l", "a", "s", "s", "=", "\"", "c", "i", "t", "a", "t", "i", "o", "n", "-", "t", "a", "b", "l", "e", "\"", ">", "<", "t", "a", "b", "l", "e", ">">>
                 \o <<"<", "c", "a", "p", "t", "i", "o", "n", ">", "C", "i", "t", "a", "t", "i", "o", "n", ":", " ">> \o citationType \o <<"<", "/", "c", "a", "p", "t", "i", "o", "n", ">">>
                 \o rows \o <<"<", "/", "t", "a", "b", "l", "e", ">", "<", "/", "d", "i", "v", ">", "<", "/", "s", "p", "a", "n", ">">>

\* the items of the plainlist handler
RECURSIVE PlainlistItems(_, _)
PlainlistItems(ls, k) ==
  IF k > Len(ls) THEN <<>>
  ELSE LET line == TrimSpace(ls[k]) IN
    (IF HasPrefix(line, <<"*", " ">>)
       THEN << <<"<", "l", "i", ">">> \o SubSeq(line, 3, Len(line)) \o <<"<", "/", "l", "i", ">">> >>
       ELSE <<>>)
      \o PlainlistItems(ls, k + 1)

plainlistHandler(args) ==
  IF Len(args) = 0 THEN <<"<", "u", "l", " ", "c", "l", "a", "s", "s", "=", "\"", "p", "l", "a", "i", "n", "l", "i", "s", "t", "\"", ">", "<", "/", "u", "l", ">">>
  ELSE <<"<", "u", "l", " ", "c", "l", "a", "s", "s", "=", "\"", "p", "l", "a", "i", "n", "l", "i", "s", "t", "\"", ">">>
         \o Join(PlainlistItems(Split(args[1], "\n"), 1), <<"\n">>) \o <<"<", "/", "u", "l", ">">>

dateAndAgeHandler(suffix, args) ==
  IF Len(args) < 3 THEN <<>>
  ELSE LET year == atoi(args[1])
           month == atoi(args[2])
           day == atoi(args[3])
           date == FormatInt(year) \o <<"-">> \o FormatInt02(month) \o <<"-">> \o FormatInt02(day)
           years == IF Now.Month < month \/ (Now.Month = month /\ Now.Day < day)
                      THEN Now.Year - year - 1 ELSE Now.Year - year
       IN IF suffix = <<"a", "g", "e">>
            THEN date \o <<" ", "(", "a", "g", "e", " ">> \o FormatInt(years) \o <<")">>
            ELSE date \o <<" ", "(">> \o FormatInt(years) \o <<" ">> \o suffix \o <<")">>

\* handler(args) for the handler functions of init()
ApplyHandler(h, args) ==
  CASE h = "short description" ->
         IF Len(args) > 0 THEN <<"<", "e", "m", ">">> \o args[1] \o <<"<", "/", "e", "m", ">">> ELSE <<>>
    [] h = "see also" -> NoteLinks(<<"S", "e", "e", " ", "A", "l", "s", "o", ":", " ">>, args)
    [] h = "other uses" -> NoteLinks(<<"O", "t", "h", "e", "r", " ", "U", "s", "e", "s", ":", " ">>, args)
    [] h = "main" -> NoteLinks(<<"M", "a", "i", "n", " ", "a", "r", "t", "i", "c", "l", "e", ":", " ">>, args)
    [] h = "further" -> NoteLinks(<<"F", "u", "t", "h", "e", "r", " ", "i", "n", "f", "o", "r", "m", "a", "t", "i", "o", "n", ":", " ">>, args)
    [] h = "infobox" -> IF Len(args) < 1 THEN <<>> ELSE infoboxHandler(args)
    [] h = "for" ->
         IF Len(args) < 2 THEN <<>>
         ELSE <<"<", "d", "i", "v", " ", "c", "l", "a", "s", "s", "=", "\"", "n", "o", "t", "e", "\"", ">", "F", "o", "r", " ">> \o args[1] \o <<",", " ", "s", "e", "e", " ", "<", "a", " ", "h", "r", "e", "f", "=", "\"">> \o args[2]
                \o <<"\"", ">">> \o args[2] \o <<"<", "/", "a", ">", "<", "/", "d", "i", "v", ">">>
    [] h = "skip" -> <<>>
    [] h = "citationHandler" -> citationHandler(args)
    [] h = "nowrap" ->
         IF Len(args) > 0 THEN <<"<", "s", "p", "a", "n", " ", "s", "t", "y", "l", "e", "=", "\"", "w", "h", "i", "t", "e", "-", "s", "p", "a", "c", "e", ":", "n", "o", "w", "r", "a", "p", "\"", ">">> \o args[1] \o <<"<", "/", "s", "p", "a", "n", ">">>
         ELSE <<>>
    [] h = "plainlist" -> plainlistHandler(args)
    [] h = "lang" ->
         IF Len(args) < 2 THEN <<>>
         ELSE <<"<", "s", "p", "a", "n", " ", "t", "i", "t", "l", "e", "=", "\"">> \o args[1] \o <<" ", "l", "a", "n", "g", "u", "a", "g", "e", " ", "t", "e", "x", "t", "\"", ">", "<", "e", "m", ">">> \o args[2]
                \o <<"<", "/", "e", "m", ">", "<", "/", "s", "p", "a", "n", ">">>
    [] h = "nbsp" -> <<"&", "n", "b", "s", "p", ";">>
    [] h = "start date" ->
         IF Len(args) < 4 THEN <<>>
         ELSE args[1] \o <<"-">> \o FormatInt02(atoi(args[2])) \o <<"-">> \o FormatInt02(atoi(args[3]))
    [] h = "marriage" ->
         IF Len(args) < 3 THEN <<>>
         ELSE args[1] \o <<" ", "(", "m", ".", " ">> \o args[2] \o <<" ", "-", " ">> \o args[3] \o <<")">>
    [] h = "convert" -> IF Len(args) < 2 THEN <<>> ELSE args[1] \o args[2]
    [] h = "birth date and age" -> dateAndAgeHandler(<<"a", "g", "e">>, args)
    [] h = "start date and age" -> dateAndAgeHandler(<<"y", "e", "a", "r", "s", " ", "a", "g", "o">>, args)

\* a registration: the pattern given to RegisterTemplateHandler and the
\* handler function
Registration(pattern, h) == [pattern |-> pattern, handler |-> h]

\* templateHandlers after init()
DefaultHandlers ==
  << Registration(<<"s", "h", "o", "r", "t", " ", "d", "e", "s", "c", "r", "i", "p", "t", "i", "o", "n">>, "short description"),
     Registration(<<"s", "e", "e", " ", "a", "l", "s", "o">>, "see also"),
     Registration(<<"o", "t", "h", "e", "r", " ", "u", "s", "e", "s">>, "other uses"),
     Registration(<<"m", "a", "i", "n">>, "main"),
     Registration(<<"f", "u", "r", "t", "h", "e", "r">>, "further"),
     Registration(<<"i", "n", "f", "o", "b", "o", "x", "\\", "b", ".", "*">>, "infobox"),
     Registration(<<"f", "o", "r">>, "for"),
     Registration(<<"r", "e", "d", "i", "r", "e", "c", "t", ".", "*">>, "skip"),
     Registration(<<"g", "o", "o", "d", " ", "p", "a", "g", "e">>, "skip"),
     Registration(<<"p", "p", "\\", "b", ".", "*">>, "skip"),
     Registration(<<"u", "s", "e", " ", "m", "d", "y", " ", "d", "a", "t", "e", "s">>, "skip"),
     Registration(<<"u", "s", "e", " ", "d", "m", "y", " ", "d", "a", "t", "e", "s">>, "skip"),
     Registration(<<"u", "s", "e", " ", "a", "m", "e", "r", "i", "c", "a", "n", " ", "e", "n", "g", "l", "i", "s", "h">>, "skip"),
     Registration(<<"m", "u", "l", "t", "i", "p", "l", "e", " ", "i", "s", "s", "u", "e", "s">>, "skip"),
     Registration(<<"c", "l", "e", "a", "n", "u", "p", " ", "r", "e", "w", "r", "i", "t", "e">>, "skip"),
     Registration(<<"c", "i", "t", "a", "t", "i", "o", "n", " ", "n", "e", "e", "d", "e", "d">>, "skip"),
     Registration(<<"m", "o", "r", "e", " ", "f", "o", "o", "t", "n", "o", "t", "e", "s">>, "skip"),
     Registration(<<"r", "e", "f", "l", "i", "s", "t">>, "skip"),
     Registration(<<"u", "p", "d", "a", "t", "e">>, "skip"),
     Registration(<<"!">>, "skip"),
     Registration(<<"c", "i", "t", "e", "\\", "b", ".", "*">>, "citationHandler"),
     Registration(<<"c", "i", "t", "a", "t", "i", "o", "n">>, "citationHandler"),
     Registration(<<"n", "o", "w", "r", "a", "p">>, "nowrap"),
     Registration(<<"p", "l", "a", "i", "n", "l", "i", "s", "t">>, "plainlist"),
     Registration(<<"l", "a", "n", "g", "(", "?", ":", "x", ")", "?">>, "lang"),
     Registration(<<"n", "b", "s", "p">>, "nbsp"),
     Registration(<<"s", "t", "a", "r", "t", " ", "d", "a", "t", "e">>, "start date"),
     Registration(<<"m", "a", "r", "r", "i", "a", "g", "e">>, "marriage"),
     Registration(<<"c", "o", "n", "v", "e", "r", "t">>, "convert"),
     Registration(<<"b", "i", "r", "t", "h", " ", "d", "a", "t", "e", " ", "a", "n", "d", " ", "a", "g", "e">>, "birth date and age"),
     Registration(<<"s", "t", "a", "r", "t", " ", "d", "a", "t", "e", " ", "a", "n", "d", " ", "a", "g", "e">>, "start date and age") >>

(***************************************************************************)
(* the regular expressions of the registrations                            *)
(***************************************************************************)
\* the pattern as a sequence of items: a literal, .*, \b, or (?:c)?
RECURSIVE RegexItems(_, _)
RegexItems(pattern, i) ==
  IF i > Len(pattern) THEN <<>>
  ELSE IF i + 1 <= Len(pattern) /\ SubSeq(pattern, i, i + 1) = <<"\\", "b">>
    THEN <<[kind |-> "wordb", c |-> ""]>> \o RegexItems(pattern, i + 2)
  ELSE IF i + 1 <= Len(pattern) /\ SubSeq(pattern, i, i + 1) = <<".", "*">>
    THEN <<[kind |-> "dotstar", c |-> ""]>> \o RegexItems(pattern, i + 2)
  ELSE IF i + 5 <= Len(pattern) /\ SubSeq(pattern, i, i + 2) = <<"(", "?", ":">>
            /\ SubSeq(pattern, i + 4, i + 5) = <<")", "?">>
    THEN <<[kind |-> "opt", c |-> pattern[i + 3]]>> \o RegexItems(pattern, i + 6)
  ELSE <<[kind |-> "lit", c |-> pattern[i]]>> \o RegexItems(pattern, i + 1)

\* the items from the k-th on match s from position j to its end, letters
\* compared without case
RECURSIVE RegexMatchFrom(_, _, _, _)
RegexMatchFrom(items, k, s, j) ==
  IF k > Len(items) THEN j = Len(s) + 1
  ELSE CASE items[k].kind = "lit" ->
              /\ j <= Len(s)
              /\ FoldChar(s[j]) = FoldChar(items[k].c)
              /\ RegexMatchFrom(items, k + 1, s, j + 1)
         [] items[k].kind = "opt" ->
              \/ /\ j <= Len(s)
                 /\ FoldChar(s[j]) = FoldChar(items[k].c)
                 /\ RegexMatchFrom(items, k + 1, s, j + 1)
              \/ RegexMatchFrom(items, k + 1, s, j)
         [] items[k].kind = "dotstar" ->
              \E n \in 0..RunNotIn(s, j, {"\n"}) : RegexMatchFrom(items, k + 1, s, j + n)
         [] items[k].kind = "wordb" ->
              /\ (j > 1 /\ IsWord(s[j - 1])) # (j <= Len(s) /\ IsWord(s[j]))
              /\ RegexMatchFrom(items, k + 1, s, j)

\* a pattern compiled without the closing anchor
MatchString_NoEndAnchor(pattern, name) ==
  \E n \in 0..Len(name) : RegexMatchFrom(RegexItems(pattern, 1), 1, SubSeq(name, 1, n), 1)

\* regexp.MustCompile(`(?i)^` + pattern + `$`).MatchString(name)
MatchString(pattern, name) == RegexMatchFrom(RegexItems(pattern, 1), 1, name, 1)

\* the first registration whose pattern matches; 0 when none does
FindHandler(name) ==
  LET hits == { i \in 1..Len(templateHandlers) : MatchString(templateHandlers[i].pattern, name) }
  IN IF hits = {} THEN 0 ELSE MinOf(hits)

(***************************************************************************)
(* ConvertWikiTextToHTML                                                   *)
(***************************************************************************)
\* templateArgsPattern.FindStringSubmatch(innerContent): the name is the
\* longest prefix without '{', '}' and '|'; it is followed by the end of
\* the text or by '|' and the arguments
TemplateArgsMatch(innerContent) ==
  LET n == RunNotIn(innerContent, 1, {"{", "}", "|"}) IN
    [ok |-> n >= 1 /\ (n = Len(innerContent) \/ innerContent[n + 1] = "|"),
     name |-> SubSeq(innerContent, 1, n),
     args |-> SubSeq(innerContent, n + 2, Len(innerContent))]

\* the loop of parseTemplateArguments from position p
RECURSIVE ParseArgsFrom(_, _, _, _, _)
ParseArgsFrom(argString, p, args, currentArg, braceLevel) ==
  IF p > Len(argString)
    THEN IF Len(currentArg) > 0 THEN Append(args, TrimSpace(currentArg)) ELSE args
  ELSE LET r == argString[p] IN
    IF r = "{" THEN ParseArgsFrom(argString, p + 1, args, Append(currentArg, r), braceLevel + 1)
    ELSE IF r = "}" THEN
      ParseArgsFrom(argString, p + 1, args, Append(currentArg, r),
                    IF braceLevel > 0 THEN braceLevel - 1 ELSE braceLevel)
    ELSE IF r = "|" /\ braceLevel = 0 THEN
      ParseArgsFrom(argString, p + 1, Append(args, TrimSpace(currentArg)), <<>>, braceLevel)
    ELSE ParseArgsFrom(argString, p + 1, args, Append(currentArg, r), braceLevel)

parseTemplateArguments(argString) == ParseArgsFrom(argString, 1, <<>>, <<>>, 0)

\* the scanning loop of ConvertWikiTextToHTML from position p
RECURSIVE ScanFrom(_, _, _, _, _, _)
ScanFrom(content, p, braceLevel, inTemplate, buf, templates) ==
  IF p > Len(content) THEN templates
  ELSE LET r == content[p] IN
    IF r = "{" /\ ~inTemplate THEN
      IF braceLevel + 1 = 2
        THEN ScanFrom(content, p + 1, 0, TRUE, <<>>, templates)
        ELSE ScanFrom(content, p + 1, braceLevel + 1, FALSE, Append(buf, r), templates)
    ELSE IF inTemplate THEN
      IF r = "{" THEN ScanFrom(content, p + 1, braceLevel + 1, TRUE, Append(buf, r), templates)
      ELSE IF r = "}" THEN
        IF braceLevel = 0
          THEN ScanFrom(content, p + 1, 0, FALSE, <<>>,
                        Append(templates, [fullMatch |-> <<"{", "{">> \o buf \o <<"}", "}">>,
                                           innerContent |-> buf]))
          ELSE ScanFrom(content, p + 1, braceLevel - 1, TRUE, Append(buf, r), templates)
      ELSE ScanFrom(content, p + 1, braceLevel, TRUE, Append(buf, r), templates)
    ELSE ScanFrom(content, p + 1, braceLevel, FALSE, buf, templates)

ScanTemplates(content) == ScanFrom(content, 1, 0, FALSE, <<>>, <<>>)

\* the default handler for unknown templates
DefaultHandler(templateName, fullMatch) ==
  <<"<", "s", "p", "a", "n", " ", "s", "t", "y", "l", "e", "=", "\"", "c", "o", "l", "o", "r", ":", "#", "A", "A", "A", "\"", ">", "N", "o", " ", "t", "e", "m", "p", "l", "a", "t", "e", " ", "f", "o", "r", " ", "\"">> \o templateName \o <<"\"", ":", " ">>
    \o fullMatch \o <<"<", "/", "s", "p", "a", "n", ">">>

\* F(v) with v evaluated once, before F uses it
With(v, F(_)) == CHOOSE r \in { F(x) : x \in {v} } : TRUE

RECURSIVE ConvertWikiTextToHTML(_)
RECURSIVE ConvertArgs(_, _)
RECURSIVE ResolveTemplates(_, _, _, _)

\* args[i] = ConvertWikiTextToHTML(arg) for the arguments from the k-th on;
\* calls lists the handler calls made on the way
ConvertArgs(args, k) ==
  IF k > Len(args) THEN [args |-> <<>>, calls |-> <<>>]
  ELSE With(ConvertWikiTextToHTML(args[k]), LAMBDA c :
         With(ConvertArgs(args, k + 1), LAMBDA r :
           [args |-> <<c.out>> \o r.args, calls |-> c.calls \o r.calls]))

\* the loop over templates[i-1], ..., templates[0] of the source
ResolveTemplates(content, templates, i, calls) ==
  IF i = 0 THEN [out |-> content, calls |-> calls]
  ELSE LET fullMatch == templates[i].fullMatch
           argsMatch == TemplateArgsMatch(templates[i].innerContent)
       IN IF ~argsMatch.ok THEN ResolveTemplates(content, templates, i - 1, calls)
          ELSE With(TrimSpace(argsMatch.name), LAMBDA templateName :
               With(IF argsMatch.args # <<>>
                      THEN With(parseTemplateArguments(argsMatch.args), LAMBDA args : ConvertArgs(args, 1))
                      ELSE [args |-> <<>>, calls |-> <<>>], LAMBDA ca :
               With(FindHandler(templateName), LAMBDA h :
               With(IF h = 0 THEN DefaultHandler(templateName, fullMatch)
                    ELSE ApplyHandler(templateHandlers[h].handler, ca.args), LAMBDA html :
               With(ReplaceFirst(content, fullMatch, html), LAMBDA replaced :
               With(calls \o ca.calls
                      \o <<[name |-> templateName,
                            registration |-> h,
                            args |-> ca.args,
                            fullMatch |-> fullMatch]>>, LAMBDA made :
                 ResolveTemplates(replaced, templates, i - 1, made)))))))

\* out is the returned text, templates the invocations found by the
\* scanning loop, calls the handler calls in the order they are made
ConvertWikiTextToHTML(content) ==
  With(HeaderStage(content), LAMBDA headed :
  With(EmphStage(headed), LAMBDA emphasized :
  With(processLists(emphasized), LAMBDA listed :
  With(LinkStage(listed), LAMBDA linked :
  With(ScanTemplates(linked), LAMBDA templates :
  With(ResolveTemplates(linked, templates, Len(templates), <<>>), LAMBDA r :
    [out |-> r.out, calls |-> r.calls, templates |-> templates]))))))

(***************************************************************************)
(* inputs of the model                                                     *)
(***************************************************************************)
\* index lines: start:pageId:title
LinePool ==
  { <<"5", ":", "1", ":", "a", "b">>,
    <<"5", ":", "2", ":", "A", "b">>,
    <<"4", "2", "9", "4", "9", "6", "7", "2", "9", "6", ":", "3", ":", "a", "_", "b">>,
    <<"4", "2", "9", "4", "9", "6", "7", "3", "0", "1", ":", "0", ":", "a", " ", "b">>,
    <<"x", ":", "0", ":">> }

LineSeqs == UNION { [1..n -> LinePool] : n \in 0..MaxLines }

QueryPool == { <<>>, <<"a">>, <<"B">>, <<"a", "b">>, <<"b", "a">> }

TitlePool == { <<>>, <<"A", "b">>, <<"A", "B">>, <<"a", "_", "b">>, <<"b">> }

NoFile == [exists |-> FALSE, bytes |-> <<>>]

File(b) == [exists |-> TRUE, bytes |-> b]

\* the archive served by the model: a block of 5 bytes at offset 0 and a
\* last block of 3 bytes at offset 5
MainArchive ==
  File(Block(<< <<Tok("start", "siteinfo"), Tok("end", "siteinfo")>>,
                PageElement(Nat64(0), <<"t", "0">>),
                PageElement(Nat64(3), <<"t", "3">>) >>)
       \o Block(<< PageElement(Nat64(1), <<"t", "1">>) \o PageElement(Nat64(2), <<"t", "2">>) >>))

\* archives for direct calls of ExtractBzip2Range: none, one block, two blocks
ArchivePool ==
  { NoFile,
    File(Block(<< PageElement(Nat64(1), <<"t", "1">>) >>)),
    File(Block(<< PageElement(Nat64(1), <<"t", "1">>) >>)
         \o Block(<< PageElement(Nat64(2), <<"t", "2">>) >>)) }

Garbage == File(<<Tok("junk", 0)>>)

NoReq == [name |-> "none", text |-> <<>>, a |-> 0, b |-> 0]

NoResp == [kind |-> "none", entries |-> <<>>, data |-> <<>>]

NoSample == [active |-> FALSE, count |-> 0, i |-> 0, seen |-> {}, result |-> <<>>, picks |-> <<>>]

NoOrigin == [how |-> "none", save |-> "none"]

NoConv == [templates |-> <<>>, calls |-> <<>>]

(***************************************************************************)
(* the server                                                              *)
(***************************************************************************)
Init ==
  /\ templateHandlers = DefaultHandlers
  /\ openFiles = <<>>
  /\ running = <<>>
  /\ conv = NoConv
  /\ srcOK \in BOOLEAN
  /\ lines \in (IF srcOK THEN LineSeqs ELSE {<<>>})
  /\ archive = MainArchive
  /\ cache \in {NoFile, Garbage}
  /\ phase = "down"
  /\ heap = <<>>
  /\ index = <<>>
  /\ origin = NoOrigin
  /\ req = NoReq
  /\ resp = NoResp
  /\ sample = NoSample

\* loadIndex, snapshot readable: the decoded table is returned
LoadIndexFromCache ==
  /\ phase = "down"
  /\ LET c == loadIndexCache(cache) IN
       /\ ~c.err
       /\ index' = c.entries
       /\ heap' = c.heap
  /\ phase' = "up"
  /\ origin' = [how |-> "cache", save |-> "none"]
  /\ UNCHANGED <<templateHandlers, openFiles, running, conv, srcOK, lines, archive, cache, req, resp, sample>>

\* a loadIndex that returns the error of loadIndexCache
LoadIndexFail_CacheErrorFatal ==
  /\ phase = "down"
  /\ loadIndexCache(cache).err
  /\ phase' = "exit"
  /\ origin' = [how |-> "srcerror", save |-> "none"]
  /\ UNCHANGED <<templateHandlers, openFiles, running, conv, srcOK, lines, archive, cache, heap, index, req, resp, sample>>

\* loadIndex, snapshot unreadable, source listing unreadable: the error of
\* os.Open is returned and main exits
LoadIndexFail ==
  /\ phase = "down"
  /\ loadIndexCache(cache).err
  /\ ~srcOK
  /\ phase' = "exit"
  /\ origin' = [how |-> "srcerror", save |-> "none"]
  /\ UNCHANGED <<templateHandlers, openFiles, running, conv, srcOK, lines, archive, cache, heap, index, req, resp, sample>>

\* the lengths at which a failing write can leave the snapshot of n tokens:
\* nothing, the header alone, half of the stream, all but the gzip trailer
SaveCuts(n) == {0, 3, n \div 2, n - 1}

\* loadIndex, snapshot unreadable: the table is built from the listing and
\* saveIndexCache is called, its error only logged
LoadIndexRebuild ==
  /\ phase = "down"
  /\ loadIndexCache(cache).err
  /\ srcOK
  /\ LET st == BuildIndex(lines)
         n == Len(EncodeSnapshot(TableValues(st.entries, st.heap)))
     IN /\ index' = st.entries
        /\ heap' = st.heap
        /\ \/ /\ cache' = saveIndexCache(cache, st.entries, st.heap, TRUE, n)
              /\ origin' = [how |-> "built", save |-> "ok"]
           \/ /\ cache' = saveIndexCache(cache, st.entries, st.heap, FALSE, 0)
              /\ origin' = [how |-> "built", save |-> "createfailed"]
           \/ \E cut \in SaveCuts(n) :
                /\ cache' = saveIndexCache(cache, st.entries, st.heap, TRUE, cut)
                /\ origin' = [how |-> "built", save |-> "writefailed"]
  /\ phase' = "up"
  /\ UNCHANGED <<templateHandlers, openFiles, running, conv, srcOK, lines, archive, req, resp, sample>>

\* the process is stopped and started again
Restart ==
  /\ phase \in {"up", "exit"}
  /\ phase' = "down"
  /\ heap' = <<>>
  /\ index' = <<>>
  /\ origin' = NoOrigin
  /\ req' = NoReq
  /\ resp' = NoResp
  /\ sample' = NoSample
  /\ UNCHANGED <<templateHandlers, openFiles, running, conv, srcOK, lines, archive, cache>>

Serving == phase = "up" /\ ~sample.active

\* handleSearch
handleSearch(q) ==
  /\ Serving
  /\ req' = [NoReq EXCEPT !.name = "search", !.text = q]
  /\ resp' = IF q # <<>>
               THEN [kind |-> "results", entries |-> searchIndex(index, q, Len(index)), data |-> <<>>]
               ELSE [kind |-> "noquery", entries |-> <<>>, data |-> <<>>]
  /\ sample' = NoSample
  /\ UNCHANGED <<templateHandlers, openFiles, running, conv, srcOK, lines, archive, cache, phase, heap, index, origin>>

\* an offset below 2^31 as a number of bytes
Fits(x) == x[1] = 0 /\ x[2] = 0 /\ x[3] < 32768

OffsetToInt(x) == x[3] * Limb + x[4]

\* handlePage for the title of the request path; the model serves the
\* entries whose offsets lie below 2^31
handlePage(title) ==
  /\ Serving
  /\ req' = [NoReq EXCEPT !.name = "page", !.text = title]
  /\ LET x == findPageByTitle(index, title) IN
       IF x = 0
         THEN resp' = [kind |-> "404", entries |-> <<>>, data |-> <<>>]
       ELSE IF index[x].Offsets = 0
         THEN resp' = [kind |-> "panic", entries |-> <<index[x]>>, data |-> <<>>]
       ELSE
         /\ Fits(heap[index[x].Offsets].Start)
         /\ Fits(heap[index[x].Offsets].End)
         /\ LET xmlData == ExtractBzip2Range(archive,
                             OffsetToInt(heap[index[x].Offsets].Start),
                             OffsetToInt(heap[index[x].Offsets].End))
            IN IF xmlData.kind # "ok"
                 THEN resp' = [kind |-> xmlData.kind, entries |-> <<index[x]>>, data |-> <<>>]
               ELSE LET t == ExtractPageText(xmlData.data, 1, <<>>, index[x].PageID) IN
                 resp' = [kind |-> (IF t.kind = "ok" THEN "page" ELSE t.kind),
                          entries |-> <<index[x]>>, data |-> t.text]
  /\ sample' = NoSample
  /\ UNCHANGED <<templateHandlers, openFiles, running, conv, srcOK, lines, archive, cache, phase, heap, index, origin>>

\* a direct call of findPageByTitle
findPageByTitleCall(title) ==
  /\ Serving
  /\ req' = [NoReq EXCEPT !.name = "lookup", !.text = title]
  /\ LET x == findPageByTitle(index, title) IN
       resp' = IF x = 0 THEN [kind |-> "nil", entries |-> <<>>, data |-> <<>>]
               ELSE [kind |-> "found", entries |-> <<index[x]>>, data |-> <<>>]
  /\ sample' = NoSample
  /\ UNCHANGED <<templateHandlers, openFiles, running, conv, srcOK, lines, archive, cache, phase, heap, index, origin>>

\* handleExtract -> getRandomEntries(index, count): the early return, or the
\* start of the drawing loop
handleExtract(count) ==
  /\ Serving
  /\ req' = [NoReq EXCEPT !.name = "sample", !.a = count]
  /\ IF Len(index) <= count
       THEN /\ resp' = [kind |-> "sample", entries |-> index, data |-> <<>>]
            /\ sample' = [NoSample EXCEPT !.count = count, !.picks = [p \in 1..Len(index) |-> p]]
       ELSE /\ resp' = NoResp
            /\ sample' = [NoSample EXCEPT !.active = TRUE, !.count = count]
  /\ UNCHANGED <<templateHandlers, openFiles, running, conv, srcOK, lines, archive, cache, phase, heap, index, origin>>

\* the body of the loop taken when idx was not seen before
DrawUnseen(sm, idx) ==
  [sm EXCEPT !.result = Append(@, index[idx]), !.picks = Append(@, idx),
             !.seen = @ \cup {idx}, !.i = @ + 1]

\* an iteration that does not look at seen
getRandomEntriesDraw_NoSeenCheck(idx) ==
  /\ phase = "up"
  /\ sample.active
  /\ sample.i < sample.count
  /\ sample' = DrawUnseen(sample, idx)
  /\ UNCHANGED <<templateHandlers, openFiles, running, conv, srcOK, lines, archive, cache, phase, heap, index, origin, req, resp>>

\* one iteration of the loop of getRandomEntries with idx := rand.Intn(len)
getRandomEntriesDraw(idx) ==
  /\ phase = "up"
  /\ sample.active
  /\ sample.i < sample.count
  /\ sample' = IF idx \notin sample.seen THEN DrawUnseen(sample, idx) ELSE sample
  /\ UNCHANGED <<templateHandlers, openFiles, running, conv, srcOK, lines, archive, cache, phase, heap, index, origin, req, resp>>

\* the loop of getRandomEntries ends and result is returned
getRandomEntriesReturn ==
  /\ phase = "up"
  /\ sample.active
  /\ sample.i >= sample.count
  /\ resp' = [kind |-> "sample", entries |-> sample.result, data |-> <<>>]
  /\ sample' = [sample EXCEPT !.active = FALSE]
  /\ UNCHANGED <<templateHandlers, openFiles, running, conv, srcOK, lines, archive, cache, phase, heap, index, origin, req>>

\* startup: main calls loadIndex before any handler is registered
Next ==
  \/ LoadIndexFromCache
  \/ LoadIndexFail
  \/ LoadIndexRebuild
  \/ Restart

Spec == Init /\ [][Next]_vars

(***************************************************************************)
(* serving: the handlers only read the published index, so they are run    *)
(* from the state in which loadIndex has returned the table built from     *)
(* the listing and written its snapshot                                    *)
(***************************************************************************)
InitServe ==
  /\ templateHandlers = DefaultHandlers
  /\ openFiles = <<>>
  /\ running = <<>>
  /\ conv = NoConv
  /\ srcOK = TRUE
  /\ lines \in LineSeqs
  /\ archive = MainArchive
  /\ LET st == BuildIndex(lines) IN
       /\ index = st.entries
       /\ heap = st.heap
       /\ cache = File(EncodeSnapshot(TableValues(st.entries, st.heap)))
  /\ phase = "up"
  /\ origin = [how |-> "built", save |-> "ok"]
  /\ req = NoReq
  /\ resp = NoResp
  /\ sample = NoSample

NextServe ==
  \/ \E q \in QueryPool : handleSearch(q)
  \/ \E t \in TitlePool : findPageByTitleCall(t)
  \/ \E t \in TitlePool : handlePage(t)
  \/ \E k \in 0..MaxK : handleExtract(k)
  \/ \E idx \in 1..Len(index) : getRandomEntriesDraw(idx)
  \/ getRandomEntriesReturn

SpecServe == InitServe /\ [][NextServe]_vars

(***************************************************************************)
(* direct calls of ExtractBzip2Range on an archive                         *)
(***************************************************************************)
InitExtract ==
  /\ templateHandlers = DefaultHandlers
  /\ openFiles = <<>>
  /\ running = <<>>
  /\ conv = NoConv
  /\ srcOK = TRUE
  /\ lines = <<>>
  /\ archive \in ArchivePool
  /\ cache = NoFile
  /\ phase = "up"
  /\ heap = <<>>
  /\ index = <<>>
  /\ origin = NoOrigin
  /\ req = NoReq
  /\ resp = NoResp
  /\ sample = NoSample

ExtractCall(startOffset, endOffset) ==
  /\ req' = [NoReq EXCEPT !.name = "extract", !.a = startOffset, !.b = endOffset]
  /\ LET r == ExtractBzip2Range(archive, startOffset, endOffset) IN
       resp' = [kind |-> r.kind, entries |-> <<>>, data |-> r.data]
  /\ UNCHANGED <<templateHandlers, openFiles, running, conv, srcOK, lines, archive, cache, phase, heap, index, origin, sample>>

NextExtract == \E s \in (-1)..MaxOff : \E e \in (-1)..MaxOff : ExtractCall(s, e)

SpecExtract == InitExtract /\ [][NextExtract]_vars

(***************************************************************************)
(* direct calls of ExtractPageText on a decompressed block                 *)
(***************************************************************************)
MaxPages == 3

PageIds == 1..2

PageTexts == <<"p", "q", "r", "s", "u">>

\* the page elements of a block, the k-th with the text PageTexts[k]
RECURSIVE Pages(_, _)
Pages(ids, k) ==
  IF k > Len(ids) THEN <<>>
  ELSE PageElement(Nat64(ids[k]), <<PageTexts[k]>>) \o Pages(ids, k + 1)

\* blocks of a dump: page elements only, the first block (the <siteinfo>
\* element before the pages) and the last one (</mediawiki> after them)
BlockPool ==
  LET idSeqs == UNION { [1..k -> PageIds] : k \in 0..MaxPages } IN
    UNION { { Pages(ids, 1),
              <<Tok("start", "siteinfo"), Tok("end", "siteinfo")>> \o Pages(ids, 1),
              Pages(ids, 1) \o <<Tok("end", "mediawiki")>> } : ids \in idSeqs }

\* the positions of the <page> start tags of a block
PageStarts(d) == { p \in 1..Len(d) : d[p] = Tok("start", "page") }

InitLocate ==
  /\ templateHandlers = DefaultHandlers
  /\ openFiles = <<>>
  /\ running = <<>>
  /\ conv = NoConv
  /\ srcOK = TRUE
  /\ lines = <<>>
  /\ archive = NoFile
  /\ cache = NoFile
  /\ phase = "up"
  /\ heap = <<>>
  /\ index = <<>>
  /\ origin = NoOrigin
  /\ req = NoReq
  /\ resp = NoResp
  /\ sample = NoSample

\* an ExtractPageText that gives up after the first page element
ExtractPageTextCall_FirstElementOnly(data, pageID) ==
  /\ req' = [NoReq EXCEPT !.name = "locate", !.text = data, !.a = pageID]
  /\ LET first == IF PageStarts(data) = {} THEN data
                  ELSE SubSeq(data, 1, MinOf(PageStarts(data)) + 6)
         t == ExtractPageText(first, 1, <<>>, Nat64(pageID)) IN
       resp' = [kind |-> t.kind, entries |-> <<>>, data |-> t.text]
  /\ UNCHANGED <<templateHandlers, openFiles, running, conv, srcOK, lines, archive, cache, phase, heap, index, origin, sample>>

ExtractPageTextCall(data, pageID) ==
  /\ req' = [NoReq EXCEPT !.name = "locate", !.text = data, !.a = pageID]
  /\ LET t == ExtractPageText(data, 1, <<>>, Nat64(pageID)) IN
       resp' = [kind |-> t.kind, entries |-> <<>>, data |-> t.text]
  /\ UNCHANGED <<templateHandlers, openFiles, running, conv, srcOK, lines, archive, cache, phase, heap, index, origin, sample>>

NextLocate == \E data \in BlockPool : \E pageID \in PageIds \cup {0} : ExtractPageTextCall(data, pageID)

SpecLocate == InitLocate /\ [][NextLocate]_vars

(***************************************************************************)
(* calls of ConvertWikiTextToHTML                                          *)
(***************************************************************************)
\* the texts of at most n characters over an alphabet
Words(alphabet, n) == UNION { [1..k -> alphabet] : k \in 0..n }

\* the concatenation of a sequence of texts
RECURSIVE Flatten(_)
Flatten(ss) == IF ss = <<>> THEN <<>> ELSE Head(ss) \o Flatten(Tail(ss))

\* the texts made of at most n pieces
Texts(pieces, n) == { Flatten(ps) : ps \in Words(pieces, n) }

InitConvert ==
  /\ templateHandlers = DefaultHandlers
  /\ openFiles = <<>>
  /\ running = <<>>
  /\ conv = NoConv
  /\ srcOK = TRUE
  /\ lines = <<>>
  /\ archive = NoFile
  /\ cache = NoFile
  /\ phase = "up"
  /\ heap = <<>>
  /\ index = <<>>
  /\ origin = NoOrigin
  /\ req = NoReq
  /\ resp = NoResp
  /\ sample = NoSample

ConvertCall(content) ==
  /\ req.name = "none"
  /\ req' = [NoReq EXCEPT !.name = "convert", !.text = content]
  /\ \E c \in {ConvertWikiTextToHTML(content)} :
       /\ resp' = [kind |-> "html", entries |-> <<>>, data |-> c.out]
       /\ conv' = [templates |-> c.templates, calls |-> c.calls]
  /\ UNCHANGED <<templateHandlers, openFiles, running, srcOK, lines, archive, cache, phase, heap, index, origin, sample>>

\* the caller has the result; the next call can be made
ConvertReturn ==
  /\ req.name = "convert"
  /\ req' = NoReq
  /\ resp' = NoResp
  /\ conv' = NoConv
  /\ UNCHANGED <<templateHandlers, openFiles, running, srcOK, lines, archive, cache, phase, heap, index, origin, sample>>

\* texts of braces, bars and a letter for the scanning loop
MaxScanLen == 5

NextScan ==
  \/ \E content \in Words({"{", "}", "|", "x"}, MaxScanLen) : ConvertCall(content)
  \/ ConvertReturn

SpecScan == InitConvert /\ [][NextScan]_vars

\* texts of nested templates with registered names
MaxNestPieces == 5

NextNest ==
  \/ \E content \in Texts({ <<"{", "{", "n", "o", "w", "r", "a", "p", "|">>,
                             <<"{", "{", "n", "b", "s", "p", "}", "}">>,
                             <<"{">>, <<"}", "}">>, <<"a">>, <<"|">> }, MaxNestPieces) :
       ConvertCall(content)
  \/ ConvertReturn

SpecNest == InitConvert /\ [][NextNest]_vars

\* texts of templates without nesting, with registered and unknown names
MaxFlatPieces == 3

NextFlat ==
  \/ \E content \in Texts({ <<"{", "{", "x", "}", "}">>,
                             <<"{", "{", "x", "|", "a", "}", "}">>,
                             <<"{", "{", "y", "}", "}">>,
                             <<"{", "{", "n", "b", "s", "p", "}", "}">>,
                             <<"a">> }, MaxFlatPieces) :
       ConvertCall(content)
  \/ ConvertReturn

SpecFlat == InitConvert /\ [][NextFlat]_vars

\* texts for processLists: all short texts of markers, a letter and the
\* line break, and texts of a few list lines
MaxListLen == 5

MaxListLines == 3

ListTexts ==
  Words({"*", "#", "a", "\n"}, MaxListLen)
    \cup { Join(ls, <<"\n">>) :
             ls \in Words({ <<"*", " ", "a">>, <<"*", "*", " ", "b">>, <<"*", " ", "c">>,
                            <<"#", " ", "d">>, <<"e">> }, MaxListLines) }

NextLists ==
  \/ \E content \in ListTexts : ConvertCall(content)
  \/ ConvertReturn

SpecLists == InitConvert /\ [][NextLists]_vars

\* texts for the header stage
MaxHeaderLen == 5

NextHeaders ==
  \/ \E content \in Words({"=", "a", " ", "\n"}, MaxHeaderLen) : ConvertCall(content)
  \/ ConvertReturn

SpecHeaders == InitConvert /\ [][NextHeaders]_vars

\* names for the dispatch: the literal start of every registered pattern,
\* as it is, with a capital, with a letter after or before it, inside
\* white space, and followed by a second word or by a hyphen and a word
\* (the last one with a capital too)
NamePool ==
  LET stemOf(pattern) == SubSeq(pattern, 1, RunNotIn(pattern, 1, {"\\", ".", "("}))
      variants(stem) ==
        { stem,
          <<UpperChar(stem[1])>> \o Tail(stem),
          stem \o <<"x">>,
          <<"x">> \o stem,
          <<" ">> \o stem \o <<" ">>,
          stem \o <<" ", "y">>,
          stem \o <<"-", "y">>,
          <<UpperChar(stem[1])>> \o Tail(stem) \o <<"-", "y">> }
  IN UNION { variants(stemOf(DefaultHandlers[i].pattern)) : i \in 1..Len(DefaultHandlers) }

\* RegisterTemplateHandler(pattern, handler): the registration is appended;
\* the dispatch registers c.* and cit.*, which overlap the registrations of
\* init and each other
MaxRegistered == 2

RegisterTemplateHandler(pattern, handler) ==
  /\ req.name = "none"
  /\ Len(templateHandlers) < Len(DefaultHandlers) + MaxRegistered
  /\ templateHandlers' = Append(templateHandlers, Registration(pattern, handler))
  /\ UNCHANGED <<openFiles, running, conv, srcOK, lines, archive, cache, phase, heap, index, origin, req, resp, sample>>

NextDispatch ==
  \/ \E name \in NamePool : ConvertCall(<<"{", "{">> \o name \o <<"}", "}">>)
  \/ ConvertReturn
  \/ \E pattern \in { <<"c", "i", "t", ".", "*">>, <<"c", ".", "*">> } :
       RegisterTemplateHandler(pattern, IF Len(pattern) = 3 THEN "nowrap" ELSE "nbsp")

SpecDispatch == InitConvert /\ [][NextDispatch]_vars

\* argument strings of braces, bars, a letter and a space for
\* parseTemplateArguments, and spans {{x...}} with bars, letters and spaces
MaxArgLen == 4

parseTemplateArgumentsCall(argString) ==
  /\ req.name = "none"
  /\ req' = [NoReq EXCEPT !.name = "parseTemplateArguments", !.text = argString]
  /\ resp' = [kind |-> "args", entries |-> parseTemplateArguments(argString), data |-> <<>>]
  /\ UNCHANGED <<templateHandlers, openFiles, running, conv, srcOK, lines, archive, cache, phase, heap, index, origin, sample>>

parseTemplateArgumentsReturn ==
  /\ req.name = "parseTemplateArguments"
  /\ req' = NoReq
  /\ resp' = NoResp
  /\ UNCHANGED <<templateHandlers, openFiles, running, conv, srcOK, lines, archive, cache, phase, heap, index, origin, sample>>

NextArgs ==
  \/ \E n \in 1..MaxArgLen : \E argString \in [1..n -> {"{", "}", "|", "a", " "}] :
       parseTemplateArgumentsCall(argString)
  \/ parseTemplateArgumentsReturn
  \/ \E n \in 1..MaxArgLen : \E tail \in [1..n -> {"|", "a", " "}] :
       ConvertCall(<<"{", "{", "x">> \o tail \o <<"}", "}">>)
  \/ ConvertReturn

SpecArgs == InitConvert /\ [][NextArgs]_vars

TypeOK ==
  /\ phase \in {"down", "up", "exit"}
  /\ Len(lines) <= MaxLines

(***************************************************************************)
(* properties                                                              *)
(***************************************************************************)
StartOf(i) == heap[index[i].Offsets].Start

EndOf(i) == heap[index[i].Offsets].End

Built == phase = "up" /\ origin.how = "built"

\* two characters that differ at most in case
SameLetter(a, b) == a = b \/ {a, b} \in {{"A", "a"}, {"B", "b"}, {"F", "f"}}

\* t and q have the same length and differ at most in case
EqualCI(t, q) == Len(t) = Len(q) /\ \A k \in 1..Len(q) : SameLetter(t[k], q[k])

\* q occurs in t when case is ignored
ContainsCI(t, q) ==
  \E off \in 0..(Len(t) - Len(q)) : \A k \in 1..Len(q) : SameLetter(t[off + k], q[k])

\* the bytes of the archive from offset a to the end of the file, decompressed
FromOffsetToEOF(a) == Bunzip(SubSeq(archive.bytes, a + 1, Len(archive.bytes)), 1, FALSE, <<>>)

\* C1: after a build the table is sorted ascending by offsets.start, every
\* entry that has a greater start after it carries as end the smallest
\* start strictly greater than its own, and every entry of the last group
\* carries the unbounded end 0.
C1_SortedAndChained ==
  Built =>
    /\ \A i, j \in 1..Len(index) : i < j => ~Less64(StartOf(j), StartOf(i))
    /\ \A i \in 1..Len(index) :
         LET greater == {j \in 1..Len(index) : Less64(StartOf(i), StartOf(j))} IN
           IF greater = {} THEN EndOf(i) = Zero64
           ELSE \E j \in greater :
                  /\ EndOf(i) = StartOf(j)
                  /\ \A k \in greater : ~Less64(StartOf(k), StartOf(j))

\* C2: Extract never crashes: every call, made directly or by handlePage
\* with the range of an entry, returns a buffer or an error value.
C2_ExtractReturns ==
  req.name \in {"page", "extract"} => resp.kind # "panic"

\* C3: with an unbounded end (0) Extract reads every byte from start to the
\* end of the file and decompresses it; with start = 0 on an archive of one
\* valid block it returns the full content of the block.
C3_UnboundedReadsToEOF ==
  (req.name = "extract" /\ archive.exists /\ req.a >= 0 /\ req.b = 0) =>
    /\ resp.kind = (IF FromOffsetToEOF(req.a).ok THEN "ok" ELSE "DecompressError")
    /\ resp.data = FromOffsetToEOF(req.a).data

\* C4: Extract fails with the invalid-range error, returning no bytes,
\* exactly when start < 0 or end is bounded (non-zero) and end <= start.
C4_InvalidRange ==
  req.name = "extract" =>
    /\ resp.kind = "InvalidRange" <=> (req.a < 0 \/ (req.b # 0 /\ req.b <= req.a))
    /\ resp.kind = "InvalidRange" => resp.data = <<>>

C4_Witness ==
  /\ req.name = "extract"
  /\ resp.kind = "InvalidRange"
  /\ req.a > 0
  /\ req.b = req.a

\* C5: with a bounded end and fewer than end-start bytes (but at least one)
\* after start, Extract reports no read error and decompresses the bytes
\* read up to the end of the file.
C5_ShortReadTolerated ==
  (/\ req.name = "extract"
   /\ archive.exists
   /\ 0 <= req.a
   /\ req.a < req.b
   /\ req.a < Len(archive.bytes)
   /\ Len(archive.bytes) < req.b) =>
    /\ resp.kind # "ReadError"
    /\ resp.kind = (IF FromOffsetToEOF(req.a).ok THEN "ok" ELSE "DecompressError")
    /\ resp.data = FromOffsetToEOF(req.a).data

\* C6: loading the snapshot written by saving a built table yields a table
\* of the same length with the same title, pageId, start and end at every
\* position.
C6_RoundTrip ==
  Built =>
    LET t == TableValues(index, heap)
        r == loadIndexCache(saveIndexCache(NoFile, index, heap, TRUE, Len(EncodeSnapshot(t))))
    IN /\ ~r.err
       /\ Len(r.entries) = Len(index)
       /\ \A i \in 1..Len(index) :
            /\ r.entries[i].Title = index[i].Title
            /\ r.entries[i].PageID = index[i].PageID
            /\ r.entries[i].Offsets # 0
            /\ r.heap[r.entries[i].Offsets] = heap[index[i].Offsets]

C6_Witness ==
  /\ Built
  /\ Len(index) >= 2
  /\ \E i \in 1..Len(index) :
       /\ StartOf(i) = Zero64
       /\ EndOf(i) # Zero64
       /\ index[i].PageID = Zero64
       /\ index[i].Title = <<>>

C8_ExactFirst ==
  req.name \in {"lookup", "page"} =>
    LET q == [k \in 1..Len(req.text) |-> IF req.text[k] = "_" THEN " " ELSE req.text[k]]
        exact == {i \in 1..Len(index) : index[i].Title = q}
        fold == {i \in 1..Len(index) : EqualCI(index[i].Title, q)}
    IN IF exact # {} THEN resp.entries = <<index[MinOf(exact)]>>
       ELSE IF fold # {} THEN resp.entries = <<index[MinOf(fold)]>>
       ELSE resp.entries = <<>> /\ resp.kind \in {"nil", "404"}

\* the exact match is returned although a case-insensitive match precedes it
C8_Witness ==
  /\ req.name = "lookup"
  /\ req.text = <<"A", "b">>
  /\ Len(index) >= 2
  /\ index[1].Title = <<"a", "b">>
  /\ index[2].Title = <<"A", "b">>
  /\ resp.entries = <<index[2]>>

\* C9: Search returns exactly the entries whose title contains the query
\* when case is ignored, each once and in table order.
C9_SearchExact ==
  (req.name = "search" /\ resp.kind = "results") =>
    LET M == {i \in 1..Len(index) : ContainsCI(index[i].Title, req.text)}
        Rank(i) == Cardinality({j \in M : j <= i})
    IN /\ Len(resp.entries) = Cardinality(M)
       /\ \A i \in M : resp.entries[Rank(i)] = index[i]

C9_Witness ==
  /\ req.name = "search"
  /\ req.text = <<"B">>
  /\ Len(index) = 3
  /\ Len(resp.entries) = 2
  /\ index[1].Title = <<>>

\* C10: Sample(k) returns k entries from k pairwise distinct positions when
\* the table has at least k entries and the whole table when it has fewer;
\* no position is taken twice whatever the draws.
C10_SampleDistinct ==
  /\ \A a, b \in 1..Len(sample.picks) : a # b => sample.picks[a] # sample.picks[b]
  /\ resp.kind = "sample" =>
       IF Len(index) < req.a THEN resp.entries = index
       ELSE /\ Len(resp.entries) = req.a
            /\ Len(sample.picks) = req.a
            /\ \A j \in 1..req.a :
                 /\ sample.picks[j] \in 1..Len(index)
                 /\ resp.entries[j] = index[sample.picks[j]]

C10_Witness ==
  /\ resp.kind = "sample"
  /\ req.a = 2
  /\ Len(index) = 3
  /\ sample.i = 2

\* C11: ExtractPageText scans the whole block: for a well-formed block with
\* several page elements it returns the text of the first element whose id
\* is the requested one, wherever that element stands, and it reports that
\* the page was not found exactly when no element has that id.
WellFormedBlock(d) == d = <<>> \/ d[Len(d)] # Tok("end", "mediawiki")

C11_FirstMatchingPage ==
  (req.name = "locate" /\ WellFormedBlock(req.text)) =>
    LET d == req.text
        hits == { p \in PageStarts(d) : d[p + 1] = Tok("id", Nat64(req.a)) }
    IN IF hits = {}
         THEN resp.kind = "PageNotFound"
         ELSE /\ resp.kind = "ok"
              /\ resp.data = d[MinOf(hits) + 4].v

\* a found page that is the third element of its block
C11_Witness ==
  /\ req.name = "locate"
  /\ WellFormedBlock(req.text)
  /\ resp.kind = "ok"
  /\ resp.data = <<PageTexts[3]>>

\* C15: the scanning loop emits exactly the top-level balanced {{ ... }}
\* spans: a capture starts only on two adjacent '{', an invocation is
\* emitted only on a '}}', the text of every emitted invocation occurs
\* literally in the scanned text, and every top-level balanced span is
\* emitted.
C15_TopLevelBalancedSpans ==
  req.name = "convert" =>
    LET s == req.text
        emitted == { conv.templates[i].fullMatch : i \in 1..Len(conv.templates) }
    IN /\ ~Contains(s, <<"{", "{">>) => emitted = {}
       /\ ~Contains(s, <<"}", "}">>) => emitted = {}
       /\ \A f \in emitted : Contains(s, f)
       /\ \A i \in 1..Len(s) : \A j \in (i + 3)..Len(s) :
            ( /\ SubSeq(s, i, i + 1) = <<"{", "{">>
              /\ SubSeq(s, j - 1, j) = <<"}", "}">>
              /\ \A k \in 1..(i - 1) : s[k] # "}" /\ (s[k] = "{" => k + 1 < i /\ s[k + 1] # "{")
              /\ \A k \in (i + 2)..(j - 2) : s[k] \notin {"{", "}"} )
            => SubSeq(s, i, j) \in emitted

\* C12: nested templates are resolved before the handler of the enclosing
\* template is called: no argument passed to a handler contains an
\* unresolved template whose name has a registered handler.
HasRegisteredTemplate(s) ==
  \E i \in 1..Len(s) : \E j \in (i + 3)..Len(s) :
    /\ SubSeq(s, i, i + 1) = <<"{", "{">>
    /\ i = 1 \/ s[i - 1] # "{"
    /\ SubSeq(s, j - 1, j) = <<"}", "}">>
    /\ \A k \in (i + 2)..(j - 2) : s[k] \notin {"{", "}"}
    /\ LET inner == SubSeq(s, i + 2, j - 2)
           name == TrimSpace(Cut(inner, "|").before)
       IN name # <<>> /\ FindHandler(name) # 0

C12_ArgumentsResolved ==
  req.name = "convert" =>
    \A c \in 1..Len(conv.calls) : \A a \in 1..Len(conv.calls[c].args) :
      ~HasRegisteredTemplate(conv.calls[c].args[a])

\* the end of the span that opens at p in a text whose templates are not
\* nested: the position of its second closing brace; 0 when p opens no such
\* span
FlatSpanEnd(s, p) ==
  LET n == RunNotIn(s, p + 2, {"{", "}"}) IN
    IF /\ p + 1 <= Len(s)
       /\ SubSeq(s, p, p + 1) = <<"{", "{">>
       /\ p + n + 3 <= Len(s)
       /\ SubSeq(s, p + n + 2, p + n + 3) = <<"}", "}">>
      THEN p + n + 3 ELSE 0

\* the name of a span: its inner text before the first '|', trimmed
SpanName(span) == TrimSpace(Cut(SubSeq(span, 3, Len(span) - 2), "|").before)

\* the text from p on is made of characters that are no braces and of
\* spans {{ ... }} without braces inside
RECURSIVE IsFlat(_, _)
IsFlat(s, p) ==
  IF p > Len(s) THEN TRUE
  ELSE IF s[p] \notin {"{", "}"} THEN IsFlat(s, p + 1)
  ELSE FlatSpanEnd(s, p) # 0 /\ IsFlat(s, FlatSpanEnd(s, p) + 1)

\* the spans of a flat text, in order
RECURSIVE FlatSpans(_, _)
FlatSpans(s, p) ==
  IF p > Len(s) THEN <<>>
  ELSE IF s[p] \notin {"{", "}"} THEN FlatSpans(s, p + 1)
  ELSE <<SubSeq(s, p, FlatSpanEnd(s, p))>> \o FlatSpans(s, FlatSpanEnd(s, p) + 1)

\* a flat text with every span replaced, at its place, by the diagnostic
\* fragment for its name and its text
RECURSIVE WithDiagnostics(_, _)
WithDiagnostics(s, p) ==
  IF p > Len(s) THEN <<>>
  ELSE IF s[p] \notin {"{", "}"} THEN <<s[p]>> \o WithDiagnostics(s, p + 1)
  ELSE LET span == SubSeq(s, p, FlatSpanEnd(s, p)) IN
    DefaultHandler(SpanName(span), span) \o WithDiagnostics(s, FlatSpanEnd(s, p) + 1)

\* C13: a template without handler is never dropped: for a text whose
\* spans all have names without registered handler, the conversion returns
\* the text with, at the place of every span, the diagnostic fragment that
\* quotes the span.
C13_UnknownTemplateVisible ==
  ( /\ req.name = "convert"
    /\ IsFlat(req.text, 1)
    /\ \A k \in 1..Len(FlatSpans(req.text, 1)) :
         FindHandler(SpanName(FlatSpans(req.text, 1)[k])) = 0 )
  => resp.data = WithDiagnostics(req.text, 1)

\* a flat text with every span replaced, at its place, by the conversion
\* of the span alone
RECURSIVE SpanBySpan(_, _)
SpanBySpan(s, p) ==
  IF p > Len(s) THEN <<>>
  ELSE IF s[p] \notin {"{", "}"} THEN <<s[p]>> \o SpanBySpan(s, p + 1)
  ELSE ConvertWikiTextToHTML(SubSeq(s, p, FlatSpanEnd(s, p))).out
         \o SpanBySpan(s, FlatSpanEnd(s, p) + 1)

\* C14: every resolution replaces the span it was scanned from and nothing
\* else: also when a text has two identical spans, each span is replaced at
\* its own place by its own resolution, and no resolution lands inside the
\* output of another one.
C14_ReplacesOwnSpan ==
  (req.name = "convert" /\ IsFlat(req.text, 1)) => resp.data = SpanBySpan(req.text, 1)

\* the list lines of a text: the lines that start, after white space, with
\* a marker
ListLinesOf(s) ==
  LET ls == Split(s, "\n") IN
    SelectSeq([k \in 1..Len(ls) |-> TrimSpace(ls[k])],
              LAMBDA l : l # <<>> /\ l[1] \in {"*", "#"})

OpenTags == { <<"<", "u", "l", ">">>, <<"<", "o", "l", ">">> }

CloseTags == { <<"<", "/", "u", "l", ">">>, <<"<", "/", "o", "l", ">">> }

IsItem(l) == HasPrefix(l, <<"<", "l", "i", ">">>)

\* reading the lines of an output from the k-th on with the stack of the
\* open list tags: ok when every closing tag closes the tag opened last and
\* no tag stays open; tops lists, for every item, the open tags around it
RECURSIVE ReadTags(_, _, _)
ReadTags(out, k, open) ==
  IF k > Len(out) THEN [ok |-> open = <<>>, tops |-> <<>>]
  ELSE IF out[k] \in OpenTags THEN ReadTags(out, k + 1, <<SubSeq(out[k], 2, 3)>> \o open)
  ELSE IF out[k] \in CloseTags THEN
    IF open # <<>> /\ Head(open) = SubSeq(out[k], 3, 4)
      THEN ReadTags(out, k + 1, Tail(open))
      ELSE [ok |-> FALSE, tops |-> <<>>]
  ELSE IF IsItem(out[k]) THEN
    LET r == ReadTags(out, k + 1, open) IN [ok |-> r.ok, tops |-> <<open>> \o r.tops]
  ELSE ReadTags(out, k + 1, open)

ListExample ==
  <<"*", " ", "a", "\n", "*", "*", " ", "b", "\n", "*", " ", "c">>

ListExampleHTML ==
  Join(<< <<"<", "u", "l", ">">>, <<"<", "l", "i", ">", "a", "<", "/", "l", "i", ">">>,
          <<"<", "u", "l", ">">>, <<"<", "l", "i", ">", "b", "<", "/", "l", "i", ">">>,
          <<"<", "/", "u", "l", ">">>, <<"<", "l", "i", ">", "c", "<", "/", "l", "i", ">">>,
          <<"<", "/", "u", "l", ">">> >>, <<"\n">>)

\* C16: the list tags of the output are balanced and nested: every closing
\* tag closes the list opened last, nothing stays open at the end, every
\* list line gives one item with as many lists open around it as the line
\* has leading markers, and '* a', '** b', '* c' gives one list inside the
\* other: one step up and one step down.
C16_ListsBalanced ==
  (req.name = "convert" /\ req.text \in ListTexts) =>
    LET r == ReadTags(Split(resp.data, "\n"), 1, <<>>)
        ls == ListLinesOf(req.text)
    IN /\ r.ok
       /\ Len(r.tops) = Len(ls)
       /\ \A k \in 1..Len(ls) : Len(r.tops[k]) = RunIn(ls[k], 1, {"*", "#"})
       /\ req.text = ListExample => resp.data = ListExampleHTML

\* the conversion of '* a', '** b', '* c'
C16_Witness ==
  /\ req.name = "convert"
  /\ req.text = ListExample
  /\ resp.data = ListExampleHTML

\* C17: a change of marker ends the list: the item of a line whose markers
\* are all '#' stands directly in an ordered list and the item of a line
\* whose markers are all '*' directly in an unordered list, also when the
\* line before has the other marker at the same depth.
C17_MarkerSwitchEndsList ==
  (req.name = "convert" /\ req.text \in ListTexts) =>
    LET r == ReadTags(Split(resp.data, "\n"), 1, <<>>)
        ls == ListLinesOf(req.text)
    IN (r.ok /\ Len(r.tops) = Len(ls)) =>
         \A k \in 1..Len(ls) :
           LET n == RunIn(ls[k], 1, {"*", "#"}) IN
             /\ (\A i \in 1..n : ls[k][i] = "#") => Head(r.tops[k]) = <<"o", "l">>
             /\ (\A i \in 1..n : ls[k][i] = "*") => Head(r.tops[k]) = <<"u", "l">>

\* C18: a line becomes a heading only when it has the same number N of
\* leading and of trailing '=', 1 <= N <= 6, around its text, and the
\* heading then has level N; a line with different numbers of leading and
\* trailing '=' is left as it is.
C18_SymmetricHeading ==
  ( /\ req.name = "convert"
    /\ ~Contains(req.text, <<"\n">>)
    /\ \E k \in 1..Len(req.text) : req.text[k] # "=" )
  => LET s == req.text
         lead == RunIn(s, 1, {"="})
         trail == RunInBack(s, Len(s), {"="})
     IN IF lead = trail /\ lead \in 1..6
          THEN resp.data = s \/ HasPrefix(resp.data, <<"<", "h", Digits[lead + 1], ">">>)
          ELSE resp.data = s

\* s and t are equal up to the case of their letters
FoldEq(s, t) == Len(s) = Len(t) /\ \A k \in 1..Len(s) : FoldChar(s[k]) = FoldChar(t[k])

HasSuffix(s, t) == Len(s) >= Len(t) /\ SubSeq(s, Len(s) - Len(t) + 1, Len(s)) = t

\* what a registered pattern stands for: a name, a name or that name with
\* an x, a start of the name followed by anything on the same line (.*),
\* or a first word followed by anything on the same line (\b.*)
WholeNameMatches(pattern, name) ==
  LET stemOf(n) == SubSeq(pattern, 1, Len(pattern) - n)
      rest(n) == SubSeq(name, Len(pattern) - n + 1, Len(name))
      starts(n) == Len(name) >= Len(pattern) - n
                     /\ FoldEq(SubSeq(name, 1, Len(pattern) - n), stemOf(n))
                     /\ ~Contains(rest(n), <<"\n">>)
  IN IF HasSuffix(pattern, <<"\\", "b", ".", "*">>)
       THEN starts(4) /\ (rest(4) = <<>> \/ ~IsWord(rest(4)[1]))
     ELSE IF HasSuffix(pattern, <<".", "*">>) THEN starts(2)
     ELSE IF HasSuffix(pattern, <<"(", "?", ":", "x", ")", "?">>)
       THEN FoldEq(name, stemOf(6)) \/ FoldEq(name, stemOf(6) \o <<"x">>)
     ELSE FoldEq(name, pattern)

\* C19: the dispatch takes the whole trimmed name without regard to case:
\* the handler called is the one of the first registration, in the order of
\* registration, whose name or pattern matches the whole name, and the
\* default handler when no registration matches the whole name; a match of
\* a part of the name only selects nothing.
C19_FirstWholeNameMatch ==
  req.name = "convert" =>
    /\ Len(conv.calls) = 1
    /\ LET name == conv.calls[1].name
           hits == { i \in 1..Len(templateHandlers) :
                       WholeNameMatches(templateHandlers[i].pattern, name) }
       IN /\ name = TrimSpace(SubSeq(req.text, 3, Len(req.text) - 2))
          /\ conv.calls[1].registration = (IF hits = {} THEN 0 ELSE MinOf(hits))
          /\ resp.data = (IF hits = {}
                            THEN DefaultHandler(name, req.text)
                            ELSE ApplyHandler(templateHandlers[MinOf(hits)].handler, <<>>))

\* {{Cite-y}} with c.* and cit.* registered after the registrations of
\* init, in this order: three registrations match the name with its
\* capital, and the citation handler of cite\b.*, the first of them, runs
C19_Witness ==
  /\ req.name = "convert"
  /\ req.text = <<"{", "{", "C", "i", "t", "e", "-", "y", "}", "}">>
  /\ Len(templateHandlers) = Len(DefaultHandlers) + 2
  /\ templateHandlers[Len(DefaultHandlers) + 1].pattern = <<"c", ".", "*">>
  /\ templateHandlers[Len(DefaultHandlers) + 2].pattern = <<"c", "i", "t", ".", "*">>
  /\ Len(conv.calls) = 1
  /\ templateHandlers[conv.calls[1].registration].pattern = <<"c", "i", "t", "e", "\\", "b", ".", "*">>
  /\ resp.data = citationHandler(<<>>)

\* the depth of braces after the first k characters of s
RECURSIVE Depth(_, _)
Depth(s, k) ==
  IF k = 0 THEN 0
  ELSE LET d == Depth(s, k - 1) IN
    IF s[k] = "{" THEN d + 1 ELSE IF s[k] = "}" /\ d > 0 THEN d - 1 ELSE d

\* the positions of the bars of s that are inside no braces
TopBars(s) == { k \in 1..Len(s) : s[k] = "|" /\ Depth(s, k - 1) = 0 }

\* the fields of s between its top-level bars, the empty ones and the last
\* one included, each without the white space around it
FieldsOf(s) ==
  LET bars == TopBars(s)
      n == Cardinality(bars)
      cut(i) == IF i = 0 THEN 0
                ELSE IF i = n + 1 THEN Len(s) + 1
                ELSE CHOOSE k \in bars : Cardinality({ j \in bars : j <= k }) = i
  IN [i \in 1..(n + 1) |-> TrimSpace(SubSeq(s, cut(i - 1) + 1, cut(i) - 1))]

\* C20: the inner text of a span is split in a name, the text before its
\* first top-level bar or all of it, and a list of arguments with exactly
\* one element for each field between the top-level bars of the rest, in
\* order, the empty fields and an empty last field included; a bar inside
\* braces splits nothing.
C20_OneArgumentPerField ==
  /\ req.name = "parseTemplateArguments" => resp.entries = FieldsOf(req.text)
  /\ req.name = "convert" =>
       LET inner == SubSeq(req.text, 3, Len(req.text) - 2)
           fields == FieldsOf(inner)
       IN /\ Len(conv.calls) = 1
          /\ conv.calls[1].name = fields[1]
          /\ Len(conv.calls[1].args) = Len(fields) - 1

(***************************************************************************)
(* direct calls of loadIndex on a source listing                           *)
(***************************************************************************)
MaxBuildLines == 3

InitBuild ==
  /\ templateHandlers = DefaultHandlers
  /\ openFiles = <<>>
  /\ running = <<>>
  /\ conv = NoConv
  /\ srcOK = TRUE
  /\ lines = <<>>
  /\ archive = NoFile
  /\ cache = NoFile
  /\ phase = "up"
  /\ heap = <<>>
  /\ index = <<>>
  /\ origin = NoOrigin
  /\ req = NoReq
  /\ resp = NoResp
  /\ sample = NoSample

\* loadIndex on the listing ls: the table is returned with a nil error
loadIndexCall(ls) ==
  /\ req.name = "none"
  /\ req' = [NoReq EXCEPT !.name = "build", !.a = Len(ls)]
  /\ lines' = ls
  /\ \E st \in {BuildIndex(ls)} :
       /\ index' = st.entries
       /\ heap' = st.heap
  /\ resp' = [kind |-> "table", entries |-> <<>>, data |-> <<>>]
  /\ UNCHANGED <<templateHandlers, openFiles, running, conv, srcOK, archive, cache, phase, origin, sample>>

loadIndexReturn ==
  /\ req.name = "build"
  /\ req' = NoReq
  /\ resp' = NoResp
  /\ lines' = <<>>
  /\ index' = <<>>
  /\ heap' = <<>>
  /\ UNCHANGED <<templateHandlers, openFiles, running, conv, srcOK, archive, cache, phase, origin, sample>>

\* listings of lines without a separator, with one, with a reserved title,
\* with colons in the title, with an empty title, with fields that are not
\* numbers
NextBuild ==
  \/ \E ls \in UNION { [1..n -> { <<"a", "b">>,
                                  <<"1", ":", "a", "b">>,
                                  <<"1", ":", "2", ":", "F", "i", "l", "e", ":", "a">>,
                                  <<"2", ":", "1", ":", "a", ":", "b">>,
                                  <<"1", ":", "3", ":", "f", "i", "l", "e", ":", "a">>,
                                  <<"x", ":", "y", ":", "c">>,
                                  <<"3", ":", "4", ":">> }] : n \in 0..MaxBuildLines } :
       loadIndexCall(ls)
  \/ loadIndexReturn

SpecBuild == InitBuild /\ [][NextBuild]_vars

\* the positions of ':' in a line
Colons(l) == { i \in 1..Len(l) : l[i] = ":" }

\* what follows the second ':' of a line that has two
Remainder(l) ==
  LET second == MinOf(Colons(l) \ {MinOf(Colons(l))}) IN SubSeq(l, second + 1, Len(l))

Accepted(l) ==
  /\ Cardinality(Colons(l)) >= 2
  /\ ~\E p \in ReservedPrefixes : HasPrefix(Remainder(l), p)

\* C21: the build never fails on a listing, and its table holds one entry
\* per accepted line (two ':' at least, title not in a reserved namespace)
\* and no other entry, the title of each being the whole remainder of its
\* line after the second ':'
C21_AcceptedLines ==
  req.name = "build" =>
    /\ resp.kind = "table"
    /\ LET acc == { i \in 1..Len(lines) : Accepted(lines[i]) } IN
         /\ Len(index) = Cardinality(acc)
         /\ \E f \in [1..Len(index) -> acc] :
              /\ \A j, k \in 1..Len(index) : f[j] = f[k] => j = k
              /\ \A k \in 1..Len(index) : index[k].Title = Remainder(lines[f[k]])

C21_Witness ==
  /\ req.name = "build"
  /\ lines = << <<"1", ":", "a", "b">>,
                <<"2", ":", "1", ":", "a", ":", "b">>,
                <<"1", ":", "2", ":", "F", "i", "l", "e", ":", "a">> >>
  /\ Len(index) = 1
  /\ index[1].Title = <<"a", ":", "b">>

\* C22: in every table returned by loadIndex, built or loaded from the
\* snapshot, two entries with the same (start, end) reference the same
\* OffsetPair, so there are as many OffsetPair objects as distinct values
C22_PairsShared ==
  phase = "up" =>
    LET refs == { index[i].Offsets : i \in 1..Len(index) } \ {0} IN
      /\ \A i, j \in 1..Len(index) :
           (/\ index[i].Offsets # 0
            /\ index[j].Offsets # 0
            /\ StartOf(i) = StartOf(j)
            /\ EndOf(i) = EndOf(j)) => index[i].Offsets = index[j].Offsets
      /\ Cardinality(refs) = Cardinality({ <<heap[r].Start, heap[r].End>> : r \in refs })

(***************************************************************************)
(* concurrent page requests: net/http serves every request in a goroutine  *)
(* of its own; a step is one call on the file or one computation on the    *)
(* locals of a request                                                     *)
(***************************************************************************)
MaxRequests == 2

IdleRequest ==
  [pc |-> "idle", title |-> <<>>, entry |-> 0, f |-> 0, compressedData |-> <<>>,
   kind |-> "none", data |-> <<>>, met |-> FALSE]

\* the table of the listing 0:0:a, 0:3:b, 5:1:c, 5:7:d, 8:9:e over an
\* archive with blocks at 0 and 5 and 8 bytes in all
InitPages ==
  /\ templateHandlers = DefaultHandlers
  /\ openFiles = <<>>
  /\ running = [r \in 1..MaxRequests |-> IdleRequest]
  /\ conv = NoConv
  /\ srcOK = TRUE
  /\ lines = << <<"0", ":", "0", ":", "a">>, <<"0", ":", "3", ":", "b">>,
                <<"5", ":", "1", ":", "c">>, <<"5", ":", "7", ":", "d">>,
                <<"8", ":", "9", ":", "e">> >>
  /\ archive \in {MainArchive, NoFile}
  /\ cache = NoFile
  /\ phase = "up"
  /\ LET st == BuildIndex(lines) IN
       /\ index = st.entries
       /\ heap = st.heap
  /\ origin = [how |-> "built", save |-> "none"]
  /\ req = NoReq
  /\ resp = NoResp
  /\ sample = NoSample

RangeStart(r) == OffsetToInt(heap[index[running[r].entry].Offsets].Start)

RangeEnd(r) == OffsetToInt(heap[index[running[r].entry].Offsets].End)

\* the return of ExtractBzip2Range with an error, or the end of handlePage
Finish(r, kind, data) ==
  [running EXCEPT ![r].pc = "done", ![r].kind = kind, ![r].data = data]

\* handlePage up to os.Open: the lookup and the range check
handlePageStart(r, title) ==
  /\ running[r].pc = "idle"
  /\ \E x \in {findPageByTitle(index, title)} :
       running' =
         IF x = 0 THEN [running EXCEPT ![r].pc = "done", ![r].title = title, ![r].kind = "404"]
         ELSE IF InvalidOffsets(OffsetToInt(heap[index[x].Offsets].Start),
                                OffsetToInt(heap[index[x].Offsets].End))
           THEN [running EXCEPT ![r].pc = "done", ![r].title = title, ![r].entry = x,
                                ![r].kind = "InvalidRange"]
         ELSE [running EXCEPT ![r].pc = "open", ![r].title = title, ![r].entry = x]
  /\ UNCHANGED <<templateHandlers, openFiles, conv, srcOK, lines, archive, cache, phase, heap, index, origin, req, resp, sample>>

\* an os.Open that hands every request the same file
OpenFile_OneSharedFile(r) ==
  /\ running[r].pc = "open"
  /\ archive.exists
  /\ openFiles' = <<[open |-> TRUE, pos |-> IF openFiles = <<>> THEN 0 ELSE openFiles[1].pos]>>
  /\ running' = [running EXCEPT ![r].pc = "seek", ![r].f = 1]
  /\ UNCHANGED <<templateHandlers, conv, srcOK, lines, archive, cache, phase, heap, index, origin, req, resp, sample>>

\* os.Open: a new file with its own position
OpenFile(r) ==
  /\ running[r].pc = "open"
  /\ archive.exists
  /\ openFiles' = Append(openFiles, [open |-> TRUE, pos |-> 0])
  /\ running' = [running EXCEPT ![r].pc = "seek", ![r].f = Len(openFiles) + 1]
  /\ UNCHANGED <<templateHandlers, conv, srcOK, lines, archive, cache, phase, heap, index, origin, req, resp, sample>>

\* os.Open fails
OpenFileError(r) ==
  /\ running[r].pc = "open"
  /\ ~archive.exists
  /\ running' = Finish(r, "OpenError", <<>>)
  /\ UNCHANGED <<templateHandlers, openFiles, conv, srcOK, lines, archive, cache, phase, heap, index, origin, req, resp, sample>>

\* f.Seek(startOffset, 0); on a closed file the error is returned and the
\* deferred Close runs
SeekFile(r) ==
  /\ running[r].pc = "seek"
  /\ IF openFiles[running[r].f].open
       THEN /\ openFiles' = [openFiles EXCEPT ![running[r].f].pos = RangeStart(r)]
            /\ running' = [running EXCEPT ![r].pc = "read"]
       ELSE /\ openFiles' = openFiles
            /\ running' = Finish(r, "SeekError", <<>>)
  /\ UNCHANGED <<templateHandlers, conv, srcOK, lines, archive, cache, phase, heap, index, origin, req, resp, sample>>

\* make([]byte, endOffset-startOffset) and io.ReadFull(f, compressedData):
\* a negative length panics, a read error returns; both run the deferred
\* Close
ReadFile(r) ==
  /\ running[r].pc = "read"
  /\ LET f == running[r].f
         n == RangeEnd(r) - RangeStart(r)
         other == \E q \in 1..MaxRequests : q # r /\ running[q].pc \in {"seek", "read", "decompress"}
     IN
       IF n < 0
         THEN /\ openFiles' = [openFiles EXCEPT ![f].open = FALSE]
              /\ running' = Finish(r, "panic", <<>>)
       ELSE IF ~openFiles[f].open
         THEN /\ openFiles' = openFiles
              /\ running' = Finish(r, "ReadError", <<>>)
       ELSE \E rd \in {ReadFull(archive.bytes, openFiles[f].pos, n)} :
         IF rd.err # "nil" /\ rd.err # "EOF"
           THEN /\ openFiles' = [openFiles EXCEPT ![f].open = FALSE]
                /\ running' = Finish(r, "ReadError", <<>>)
           ELSE /\ openFiles' = [openFiles EXCEPT ![f].pos = @ + n]
                /\ running' = [running EXCEPT ![r].pc = "decompress",
                                              ![r].compressedData = rd.buf,
                                              ![r].met = other]
  /\ UNCHANGED <<templateHandlers, conv, srcOK, lines, archive, cache, phase, heap, index, origin, req, resp, sample>>

\* bzip2.NewReader over the buffer of the request, io.Copy, and the return
\* of ExtractBzip2Range with its deferred f.Close()
Decompress(r) ==
  /\ running[r].pc = "decompress"
  /\ openFiles' = [openFiles EXCEPT ![running[r].f].open = FALSE]
  /\ \E z \in {Bunzip(running[r].compressedData, 1, FALSE, <<>>)} :
       running' = IF z.ok THEN [running EXCEPT ![r].pc = "locate", ![r].data = z.data]
                  ELSE Finish(r, "DecompressError", <<>>)
  /\ UNCHANGED <<templateHandlers, conv, srcOK, lines, archive, cache, phase, heap, index, origin, req, resp, sample>>

\* ExtractPageText on the decompressed block of the request
Locate(r) ==
  /\ running[r].pc = "locate"
  /\ \E t \in {ExtractPageText(running[r].data, 1, <<>>, index[running[r].entry].PageID)} :
       running' = Finish(r, IF t.kind = "ok" THEN "page" ELSE t.kind, t.text)
  /\ UNCHANGED <<templateHandlers, openFiles, conv, srcOK, lines, archive, cache, phase, heap, index, origin, req, resp, sample>>

NextPages ==
  \/ \E r \in 1..MaxRequests :
       \E title \in { <<"a">>, <<"b">>, <<"c">>, <<"d">>, <<"e">>, <<"z">> } : handlePageStart(r, title)
  \/ \E r \in 1..MaxRequests : OpenFile(r)
  \/ \E r \in 1..MaxRequests : OpenFileError(r)
  \/ \E r \in 1..MaxRequests : SeekFile(r)
  \/ \E r \in 1..MaxRequests : ReadFile(r)
  \/ \E r \in 1..MaxRequests : Decompress(r)
  \/ \E r \in 1..MaxRequests : Locate(r)

SpecPages == InitPages /\ [][NextPages]_vars

\* what a page request for title returns when it runs alone
Alone(title) ==
  LET x == findPageByTitle(index, title) IN
    IF x = 0 THEN [kind |-> "404", data |-> <<>>]
    ELSE LET xmlData == ExtractBzip2Range(archive, OffsetToInt(heap[index[x].Offsets].Start),
                                          OffsetToInt(heap[index[x].Offsets].End))
         IN IF xmlData.kind # "ok" THEN [kind |-> xmlData.kind, data |-> <<>>]
            ELSE LET t == ExtractPageText(xmlData.data, 1, <<>>, index[x].PageID) IN
                   [kind |-> (IF t.kind = "ok" THEN "page" ELSE t.kind), data |-> t.text]

\* C23: page requests that run concurrently do not interfere: no two of
\* them hold the same file, a finished request has closed the file it
\* opened, and each returns what it returns when run alone
C23_NoInterference ==
  /\ \A r, q \in 1..MaxRequests :
       (r # q /\ running[r].f # 0 /\ running[q].f # 0) => running[r].f # running[q].f
  /\ \A r \in 1..MaxRequests :
       running[r].pc \in {"locate", "done"} /\ running[r].f # 0 => ~openFiles[running[r].f].open
  /\ \A r \in 1..MaxRequests :
       running[r].pc = "done" =>
         /\ running[r].kind = Alone(running[r].title).kind
         /\ running[r].data = Alone(running[r].title).data

C23_Witness ==
  /\ running[1].pc = "done" /\ running[1].kind = "page" /\ running[1].met
  /\ running[2].pc = "done" /\ running[2].kind = "page" /\ running[2].met
  /\ running[1].title = <<"a">>
  /\ running[2].title = <<"c">>
  /\ running[1].data # running[2].data

\* texts of link brackets, emphasis quotes and letters, alone, as the
\* argument of a nowrap template, and after a {{nowrap| that is never closed
MaxStagePieces == 5

NextStages ==
  \/ \E t \in Texts({ <<"[", "[">>, <<"]", "]">>, <<"'", "'">>, <<"a">> }, MaxStagePieces) :
       \/ ConvertCall(t)
       \/ ConvertCall(<<"{", "{", "n", "o", "w", "r", "a", "p", "|">> \o t \o <<"}", "}">>)
       \/ ConvertCall(<<"{", "{", "n", "o", "w", "r", "a", "p", "|">> \o t)
  \/ ConvertReturn

SpecStages == InitConvert /\ [][NextStages]_vars

\* the header, emphasis, list and link stages, each applied once, in the
\* order of ConvertWikiTextToHTML
StagesOnce(text) == LinkStage(processLists(EmphStage(HeaderStage(text))))

\* the text between {{nowrap| and }} of a request
NowrapArgument(text) == SubSeq(text, 10, Len(text) - 2)

\* C24: the header, emphasis, list and link stages are applied exactly
\* once, in this order, to every part of the text, also to the text of a
\* template argument: the argument handed to the handler of {{nowrap|t}}
\* is t with each stage applied once
C24_StagesOnceInArguments ==
  (/\ req.name = "convert"
   /\ HasPrefix(req.text, <<"{", "{", "n", "o", "w", "r", "a", "p", "|">>)
   /\ Len(conv.calls) = 1
   /\ Len(conv.calls[1].args) = 1)
    => conv.calls[1].args[1] = StagesOnce(NowrapArgument(req.text))

\* texts of table markup, line breaks and a registered template
MaxTablePieces == 5

NextTables ==
  \/ \E content \in Texts({ <<"{", "|">>, <<"|", "}">>, <<"|", "a">>, <<"\n">>,
                             <<"{", "{", "n", "b", "s", "p", "}", "}">> }, MaxTablePieces) :
       ConvertCall(content)
  \/ ConvertReturn

SpecTables == InitConvert /\ [][NextTables]_vars

\* the positions at which a line of the text starts with mark
LinesStarting(text, mark) ==
  { p \in 1..(Len(text) - Len(mark) + 1) :
      (p = 1 \/ text[p - 1] = "\n") /\ SubSeq(text, p, p + Len(mark) - 1) = mark }

\* the text holds a block from a line starting {| to a line starting |}
HasTableBlock(text) ==
  \E p \in LinesStarting(text, <<"{", "|">>) :
    \E q \in LinesStarting(text, <<"|", "}">>) : p < q

\* the number of places of the text at which sub occurs
Occurrences(text, sub) ==
  Cardinality({ p \in 1..(Len(text) - Len(sub) + 1) : SubSeq(text, p, p + Len(sub) - 1) = sub })

\* C25: a block from a line starting {| to a line starting |} is replaced
\* by an HTML table, and the braces of {| and |} are not taken for template
\* braces: the templates scanned are the {{nbsp}} of the text
C25_TableStage ==
  req.name = "convert" =>
    /\ HasTableBlock(req.text) => Contains(resp.data, <<"<", "t", "a", "b", "l", "e">>)
    /\ Len(conv.templates) = Occurrences(req.text, <<"{", "{", "n", "b", "s", "p", "}", "}">>)

\* the start offset written in a line
StartField(l) == ParseInt(SubSeq(l, 1, MinOf(Colons(l)) - 1))

\* the starts written in the accepted lines of the listing
ListedStarts == { StartField(lines[k]) : k \in { k \in 1..Len(lines) : Accepted(lines[k]) } }

\* the smallest listed start above s, and 0 when there is none
EndFor(s) ==
  LET above == { t \in ListedStarts : Less64(s, t) } IN
    IF above = {} THEN Zero64
    ELSE CHOOSE t \in above : \A u \in above : ~Less64(u, t)

\* C26: every entry of a built table carries the start written in its line
\* and the end computed for that start, for offsets of 2^32 and above too:
\* the key of the offset cache never resolves a (start, end) to the pair of
\* other values
C26_OffsetsExact ==
  Built =>
    \A i \in 1..Len(index) :
      \E k \in 1..Len(lines) :
        /\ Accepted(lines[k])
        /\ Remainder(lines[k]) = index[i].Title
        /\ StartOf(i) = StartField(lines[k])
        /\ EndOf(i) = EndFor(StartField(lines[k]))

\* top-level items of a text: a nowrap template with a nested nbsp template
\* as argument, an nbsp template, a letter
TopLevelItems ==
  { <<"{", "{", "n", "o", "w", "r", "a", "p", "|", "{", "{", "n", "b", "s", "p", "}", "}", "}", "}">>,
    <<"{", "{", "n", "b", "s", "p", "}", "}">>,
    <<"a">> }

\* C27: every top-level template is replaced, at its place, by the result
\* of its own handler, also when a template nested in one of its arguments
\* has the text of a top-level template further on: the conversion of a
\* sequence of top-level items is the sequence of their conversions, and no
\* enclosing template is left unresolved
C27_EnclosingResolved ==
  req.name = "convert" =>
    \A items \in Words(TopLevelItems, 3) :
      Flatten(items) = req.text =>
        resp.data = Flatten([k \in 1..Len(items) |-> ConvertWikiTextToHTML(items[k]).out])

\* C28 as stated: every entry of the table is found by its own title,
\* titles with an underscore included: findPageByTitle called with the title
\* of an entry returns an entry with that title
C28_FoundByOwnTitle ==
  (/\ req.name = "lookup"
   /\ \E i \in 1..Len(index) : index[i].Title = req.text)
    => /\ resp.kind = "found"
       /\ resp.entries[1].Title = req.text

\* C29: over every sequence of startups on an unchanged listing (build and
\* snapshot write, loads of the snapshot, rebuilds after a failed or
\* truncated write), the table loadIndex returns is equal by value to the
\* table built from the listing
C29_AlwaysTheBuiltTable ==
  phase = "up" =>
    /\ \A i \in 1..Len(index) : index[i].Offsets # 0
    /\ \E st \in {BuildIndex(lines)} :
         TableValues(index, heap) = TableValues(st.entries, st.heap)

\* a table loaded from a snapshot whose write was cut before its end
C29_Witness ==
  /\ phase = "up"
  /\ origin.how = "cache"
  /\ Len(index) >= 2
  /\ Len(cache.bytes) < Len(EncodeSnapshot(TableValues(index, heap)))

\* the texts the recursive calls of one conversion are applied to: the
\* arguments of the scanned templates whose name parses
RecursiveTexts ==
  UNION { LET am == TemplateArgsMatch(conv.templates[j].innerContent) IN
            IF am.ok /\ am.args # <<>>
              THEN { parseTemplateArguments(am.args)[k] :
                       k \in 1..Len(parseTemplateArguments(am.args)) }
              ELSE {} : j \in 1..Len(conv.templates) }

\* C30: the recursive conversion of template arguments is always applied
\* to a text strictly shorter than the text being converted (so the
\* conversion terminates, at a depth bounded by the nesting of the input),
\* and a {{ that is not closed before the end of the text emits no
\* invocation
C30_RecursionOnShorterText ==
  req.name = "convert" =>
    /\ \A a \in RecursiveTexts : Len(a) < Len(req.text)
    /\ Occurrences(req.text, <<"}">>) = 0 => conv.templates = <<>>

\* C28, amended: every entry whose title has no underscore is found by its
\* own title: findPageByTitle called with that title returns an entry with
\* that title (a title with an underscore is looked up with spaces in the
\* place of the underscores)
C28_FoundByOwnTitleWithoutUnderscore ==
  (/\ req.name = "lookup"
   /\ \A k \in 1..Len(req.text) : req.text[k] # "_"
   /\ \E i \in 1..Len(index) : index[i].Title = req.text)
    => /\ resp.kind = "found"
       /\ resp.entries[1].Title = req.text

\* the second of two entries that differ in case only, found by its title
C28_Witness ==
  /\ req.name = "lookup"
  /\ req.text = <<"A", "b">>
  /\ Len(index) >= 2
  /\ index[1].Title = <<"a", "b">>
  /\ index[2].Title = <<"A", "b">>
  /\ resp.kind = "found"
  /\ resp.entries[1] = index[2]

====
